---------------------------- MODULE Spec2Model ----------------------------
(***************************************************************************)
(* A model of the code-review service: the response normalisation of the   *)
(* three operations (analyze, metrics, inject_bugs) in their RAG-backed    *)
(* (app/RAG) and direct (app/services.py) implementations, the credential  *)
(* resolution, and the HTTP endpoints of app/api that wrap the direct      *)
(* implementations.                                                        *)
(*                                                                         *)
(* Text is a sequence of symbols.  A symbol is one character (a backtick, *)
(* a brace, a digit, ...) or one word of letters (json, issues, ...) that  *)
(* none of the string operations of the code ever splits: every pattern    *)
(* the code searches for (the json fence, the json fence and a line feed,  *)
(* a line feed and a fence, a fence) is a sequence of whole symbols.       *)
(***************************************************************************)
EXTENDS Integers, Sequences, FiniteSets, TLC

(***************************************************************************)
(* Symbols                                                                 *)
(***************************************************************************)
BT == "BT"
LF == "LF"
SP == "SP"
DQ == "DQ"

Digits == {"0", "1", "2", "3", "4", "5", "6", "7", "8", "9"}
Whitespace == {SP, LF}

DigitVal(d) ==
    CASE d = "0" -> 0 [] d = "1" -> 1 [] d = "2" -> 2 [] d = "3" -> 3
      [] d = "4" -> 4 [] d = "5" -> 5 [] d = "6" -> 6 [] d = "7" -> 7
      [] d = "8" -> 8 [] d = "9" -> 9

(***************************************************************************)
(* Python str operations                                                   *)
(***************************************************************************)
StartsWith(s, p) == Len(s) >= Len(p) /\ SubSeq(s, 1, Len(p)) = p

EndsWith(s, p) == Len(s) >= Len(p) /\ SubSeq(s, Len(s) - Len(p) + 1, Len(s)) = p

\* the positions at which pattern p occurs in s
Occurrences(s, p) ==
    {i \in 1..(Len(s) - Len(p) + 1) : SubSeq(s, i, i + Len(p) - 1) = p}

Min(S) == CHOOSE x \in S : \A y \in S : x <= y

\* s.replace(p, empty, 1): the leftmost occurrence of p is removed, if there is one
ReplaceFirst(s, p) ==
    IF Occurrences(s, p) = {} THEN s
    ELSE LET i == Min(Occurrences(s, p))
         IN  SubSeq(s, 1, i - 1) \o SubSeq(s, i + Len(p), Len(s))

FenceJson == <<BT, BT, BT, "json">>
FenceJsonLine == <<BT, BT, BT, "json", LF>>
FenceEnd == <<BT, BT, BT>>
LineFenceEnd == <<LF, BT, BT, BT>>

\* "Remove markdown code block if present in the response"
\* only the opening fence line is removed
StripFence_OpeningOnly(response) ==
    IF StartsWith(response, FenceJson) /\ EndsWith(response, FenceEnd)
    THEN ReplaceFirst(response, FenceJsonLine)
    ELSE response

StripFence(response) ==
    IF StartsWith(response, FenceJson) /\ EndsWith(response, FenceEnd)
    THEN ReplaceFirst(ReplaceFirst(response, FenceJsonLine), LineFenceEnd)
    ELSE response

(***************************************************************************)
(* Python values, as json.loads builds them                                *)
(***************************************************************************)
None == [t |-> "null"]
JBool(b) == [t |-> "bool", b |-> b]
JNum(n) == [t |-> "num", n |-> n]
JStr(s) == [t |-> "str", s |-> s]
JList(a) == [t |-> "list", a |-> a]
JDict(f) == [t |-> "dict", d |-> f]

EmptyDict == JDict([k \in {} |-> None])
EmptyList == JList(<<>>)
EmptyStr == JStr(<<>>)

\* one key of a dict
Entry(k, val) == [x \in {k} |-> val]

\* d[k] = val on the function f of a dict: a later duplicate key replaces an earlier one
Put(f, k, val) == [x \in (DOMAIN f) \cup {k} |-> IF x = k THEN val ELSE f[x]]

(***************************************************************************)
(* json.loads: a strict JSON parser over the symbols                       *)
(***************************************************************************)
Fail == [ok |-> FALSE, val |-> None, pos |-> 0]
Ok(val, pos) == [ok |-> TRUE, val |-> val, pos |-> pos]

RECURSIVE SkipWs(_, _)
SkipWs(s, i) ==
    IF i <= Len(s) /\ s[i] \in Whitespace THEN SkipWs(s, i + 1) ELSE i

\* the characters of a string literal from position i (after the opening quote):
\* a raw line feed is a control character and is rejected by the strict parser
RECURSIVE ScanString(_, _, _)
ScanString(s, i, acc) ==
    IF i > Len(s) THEN Fail
    ELSE IF s[i] = DQ THEN Ok(JStr(acc), i + 1)
    ELSE IF s[i] = LF THEN Fail
    ELSE ScanString(s, i + 1, Append(acc, s[i]))

RECURSIVE ScanDigits(_, _, _)
ScanDigits(s, i, acc) ==
    IF i <= Len(s) /\ s[i] \in Digits
    THEN ScanDigits(s, i + 1, 10 * acc + DigitVal(s[i]))
    ELSE [val |-> acc, pos |-> i]

\* -?(0|[1-9][0-9]*) from position i
ScanNumber(s, i) ==
    LET neg == i <= Len(s) /\ s[i] = "-"
        j == IF neg THEN i + 1 ELSE i
    IN  IF j > Len(s) \/ s[j] \notin Digits THEN Fail
        ELSE IF s[j] = "0" THEN Ok(JNum(0), j + 1)
        ELSE LET d == ScanDigits(s, j, 0)
             IN  Ok(JNum(IF neg THEN 0 - d.val ELSE d.val), d.pos)

RECURSIVE ScanValue(_, _)
RECURSIVE ScanArray(_, _, _)
RECURSIVE ScanObject(_, _, _)

\* the value that starts at position i (no leading whitespace)
ScanValue(s, i) ==
    IF i > Len(s) THEN Fail
    ELSE CASE s[i] = DQ -> ScanString(s, i + 1, <<>>)
           [] s[i] = "{" ->
                LET j == SkipWs(s, i + 1)
                IN  IF j <= Len(s) /\ s[j] = "}" THEN Ok(EmptyDict, j + 1)
                    ELSE ScanObject(s, j, [k \in {} |-> None])
           [] s[i] = "[" ->
                LET j == SkipWs(s, i + 1)
                IN  IF j <= Len(s) /\ s[j] = "]" THEN Ok(EmptyList, j + 1)
                    ELSE ScanArray(s, j, <<>>)
           [] s[i] = "null" -> Ok(None, i + 1)
           [] s[i] = "true" -> Ok(JBool(TRUE), i + 1)
           [] s[i] = "false" -> Ok(JBool(FALSE), i + 1)
           [] s[i] = "-" \/ s[i] \in Digits -> ScanNumber(s, i)
           [] OTHER -> Fail

\* the items of an array from position i (the first item starts at i)
ScanArray(s, i, acc) ==
    LET item == ScanValue(s, i)
    IN  IF ~item.ok THEN Fail
        ELSE LET j == SkipWs(s, item.pos)
             IN  IF j > Len(s) THEN Fail
                 ELSE IF s[j] = "]" THEN Ok(JList(Append(acc, item.val)), j + 1)
                 ELSE IF s[j] = "," THEN ScanArray(s, SkipWs(s, j + 1), Append(acc, item.val))
                 ELSE Fail

\* the members of an object from position i (the first key's quote is at i)
ScanObject(s, i, acc) ==
    IF i > Len(s) \/ s[i] # DQ THEN Fail
    ELSE LET key == ScanString(s, i + 1, <<>>)
         IN  IF ~key.ok THEN Fail
             ELSE LET c == SkipWs(s, key.pos)
                  IN  IF c > Len(s) \/ s[c] # ":" THEN Fail
                      ELSE LET member == ScanValue(s, SkipWs(s, c + 1))
                           IN  IF ~member.ok THEN Fail
                               ELSE LET j == SkipWs(s, member.pos)
                                        f == Put(acc, key.val.s, member.val)
                                    IN  IF j > Len(s) THEN Fail
                                        ELSE IF s[j] = "}" THEN Ok(JDict(f), j + 1)
                                        ELSE IF s[j] = ","
                                             THEN ScanObject(s, SkipWs(s, j + 1), f)
                                        ELSE Fail

\* json.loads(s): [ok |-> FALSE] stands for json.JSONDecodeError
JsonLoads(s) ==
    LET r == ScanValue(s, SkipWs(s, 1))
    IN  IF r.ok /\ SkipWs(s, r.pos) = Len(s) + 1 THEN r ELSE Fail

(***************************************************************************)
(* Python helpers                                                          *)
(***************************************************************************)
Str(w) == JStr(<<w>>)

\* bool(v) of a value
Truthy(v) ==
    CASE v.t = "null" -> FALSE
      [] v.t = "bool" -> v.b
      [] v.t = "num" -> v.n # 0
      [] v.t = "str" -> Len(v.s) > 0
      [] v.t = "list" -> Len(v.a) > 0
      [] v.t = "dict" -> DOMAIN v.d # {}

\* d.get(key) for d.get(key, default)
Get_NoDefault(d, key, default) == IF <<key>> \in DOMAIN d.d THEN d.d[<<key>>] ELSE None

\* d.get(key, default) of a dict d
Get(d, key, default) == IF <<key>> \in DOMAIN d.d THEN d.d[<<key>>] ELSE default

RECURSIVE LStrip(_)
LStrip(s) == IF Len(s) > 0 /\ Head(s) \in Whitespace THEN LStrip(Tail(s)) ELSE s

RECURSIVE RStrip(_)
RStrip(s) ==
    IF Len(s) > 0 /\ s[Len(s)] \in Whitespace THEN RStrip(SubSeq(s, 1, Len(s) - 1)) ELSE s

\* s.strip()
Strip(s) == RStrip(LStrip(s))

\* str.lower() on one symbol: the upper-case words of the model
LowerSym(c) ==
    CASE c = "STRING" -> "string"
      [] c = "String" -> "string"
      [] c = "NONE" -> "none"
      [] c = "None" -> "none"
      [] c = "Null" -> "null"
      [] c = "NULL" -> "null"
      [] OTHER -> c

\* s.lower()
Lower(s) == [i \in 1..Len(s) |-> LowerSym(s[i])]

\* sep.join(parts)
RECURSIVE Join(_, _)
Join(sep, parts) ==
    IF Len(parts) = 0 THEN <<>>
    ELSE IF Len(parts) = 1 THEN parts[1]
    ELSE parts[1] \o sep \o Join(sep, Tail(parts))

(***************************************************************************)
(* app/services.py: the credential                                         *)
(***************************************************************************)
Placeholders == {<<"string">>, <<"none">>, <<"null">>, <<>>}

\* [ok |-> FALSE] stands for ValueError("API_KEY is required. ...")
\* the environment default is taken before the key of the request
get_api_key_DefaultFirst(user_api_key, DEFAULT_API_KEY) ==
    LET cleaned == IF user_api_key.t = "str" THEN Strip(user_api_key.s) ELSE <<>>
    IN  IF Truthy(DEFAULT_API_KEY) /\ Len(Strip(DEFAULT_API_KEY.s)) > 0
        THEN [ok |-> TRUE, key |-> Strip(DEFAULT_API_KEY.s)]
        ELSE IF Truthy(user_api_key) /\ Lower(cleaned) \notin Placeholders
        THEN [ok |-> TRUE, key |-> cleaned]
        ELSE [ok |-> FALSE, key |-> <<>>]

\* the placeholder words are compared as they are written
get_api_key_CaseSensitive(user_api_key, DEFAULT_API_KEY) ==
    LET cleaned == Strip(user_api_key.s)
    IN  IF Truthy(user_api_key) /\ cleaned \notin Placeholders
        THEN [ok |-> TRUE, key |-> cleaned]
        ELSE IF Truthy(DEFAULT_API_KEY) /\ Len(Strip(DEFAULT_API_KEY.s)) > 0
        THEN [ok |-> TRUE, key |-> Strip(DEFAULT_API_KEY.s)]
        ELSE [ok |-> FALSE, key |-> <<>>]

get_api_key(user_api_key, DEFAULT_API_KEY) ==
    LET cleaned == Strip(user_api_key.s)
    IN  IF Truthy(user_api_key) /\ Lower(cleaned) \notin Placeholders
        THEN [ok |-> TRUE, key |-> cleaned]
        ELSE IF Truthy(DEFAULT_API_KEY) /\ Len(Strip(DEFAULT_API_KEY.s)) > 0
        THEN [ok |-> TRUE, key |-> Strip(DEFAULT_API_KEY.s)]
        ELSE [ok |-> FALSE, key |-> <<>>]

(***************************************************************************)
(* The completion client: what chain.invoke does, chosen by the            *)
(* environment: it returns a text, or raises                               *)
(***************************************************************************)
LlmReturns(text) == [exc |-> "none", text |-> text]
LlmRaises(e) == [exc |-> e, text |-> <<>>]

(***************************************************************************)
(* The outcome of one call of an operation: what it returned or raised,    *)
(* the calls it made beyond the process in their order (embed, search,     *)
(* llm), the credential it gave the completion client, the code it put in  *)
(* the prompt, the model text it received and the text it handed to        *)
(* json.loads                                                              *)
(***************************************************************************)
NoText == <<"NoText">>

Raised(e, effects, key, sent) ==
    [exc |-> e, val |-> None, effects |-> effects, key |-> key, sent |-> sent,
     raw |-> NoText, parsed |-> NoText, decoded |-> FALSE]

Returned(val, effects, key, sent, raw, parsed, decoded) ==
    [exc |-> "none", val |-> val, effects |-> effects, key |-> key, sent |-> sent,
     raw |-> raw, parsed |-> parsed, decoded |-> decoded]

(***************************************************************************)
(* The defaults returned when json.loads raises JSONDecodeError            *)
(***************************************************************************)
IssuesDefault == JDict(Entry(<<"issues">>, EmptyList))

MetricsDefault ==
    JDict(Put(Entry(<<"summary_metrics">>, EmptyDict), <<"issue_distribution">>, EmptyDict))

\* the default carries no code
InjectDefault_NoCode(code) ==
    JDict(Put(Entry(<<"buggy_code">>, EmptyStr), <<"bugs_injected">>, EmptyList))

InjectDefault(code) ==
    JDict(Put(Entry(<<"buggy_code">>, code), <<"bugs_injected">>, EmptyList))

(***************************************************************************)
(* The tail the six operations share: the fenced block is stripped from    *)
(* the model text, and                                                     *)
(*     try: return json.loads(response)                                    *)
(*     except json.JSONDecodeError: return the default                     *)
(***************************************************************************)
\* the except clause lets the JSONDecodeError through
LoadsOrDefault_Reraise(parsed_response, default, effects, key, sent, raw, response) ==
    IF parsed_response.ok
    THEN Returned(parsed_response.val, effects, key, sent, raw, response, TRUE)
    ELSE Raised("JSONDecodeError", effects, key, sent)

LoadsOrDefault(parsed_response, default, effects, key, sent, raw, response) ==
    IF parsed_response.ok
    THEN Returned(parsed_response.val, effects, key, sent, raw, response, TRUE)
    ELSE Returned(default, effects, key, sent, raw, response, FALSE)

Decode(response, default, effects, key, sent, raw) ==
    LoadsOrDefault(JsonLoads(response), default, effects, key, sent, raw, response)

(***************************************************************************)
(* app/services.py: the direct implementations                             *)
(***************************************************************************)
\* a failed call of the completion client is made a second time
SvcInvoke_Retry(k, code_snippet, default, llm) ==
    IF ~k.ok THEN Raised("ValueError", <<>>, NoText, NoText)
    ELSE IF llm.exc # "none" THEN Raised(llm.exc, <<"llm", "llm">>, k.key, code_snippet.s)
    ELSE Decode(StripFence(llm.text), default, <<"llm">>, k.key, code_snippet.s, llm.text)

SvcInvoke(k, code_snippet, default, llm) ==
    IF ~k.ok THEN Raised("ValueError", <<>>, NoText, NoText)
    ELSE IF llm.exc # "none" THEN Raised(llm.exc, <<"llm">>, k.key, code_snippet.s)
    ELSE Decode(StripFence(llm.text), default, <<"llm">>, k.key, code_snippet.s, llm.text)

Svc_analyze_code(code_snippet, api_key, DEFAULT_API_KEY, llm) ==
    SvcInvoke(get_api_key(api_key, DEFAULT_API_KEY), code_snippet, IssuesDefault, llm)

Svc_get_code_metrics(code_snippet, api_key, DEFAULT_API_KEY, llm) ==
    SvcInvoke(get_api_key(api_key, DEFAULT_API_KEY), code_snippet, MetricsDefault, llm)

Svc_inject_bugs(code_snippet, bug_type, severity_level, num_bugs, api_key, DEFAULT_API_KEY, llm) ==
    SvcInvoke(get_api_key(api_key, DEFAULT_API_KEY), code_snippet,
              InjectDefault(code_snippet), llm)

(***************************************************************************)
(* app/RAG: the embedding model, the vector store and the retrieval        *)
(*                                                                         *)
(* An embedding is the set of symbols of the text, tagged with the model   *)
(* that made it; the distance of two embeddings is the number of symbols   *)
(* in one and not in the other.                                            *)
(***************************************************************************)
\* SentenceTransformerEmbeddings(model_name=...)
MiniLM == [model_name |-> "all-MiniLM-L6-v2"]

K == 5

Range(s) == {s[i] : i \in DOMAIN s}

embed_query(embedding_model, text) == [model |-> embedding_model, words |-> Range(text)]

Distance(a, b) == Cardinality((a.words \ b.words) \cup (b.words \ a.words))

\* an in-memory Chroma collection and the embedding model
initialize_vector_store_and_embeddings ==
    [embedding_model |-> MiniLM,
     vector_store |-> [embedding_function |-> MiniLM, docs |-> <<>>]]

\* the positions of docs not in done, nearest to q first, earlier insertion first
RECURSIVE Ranked(_, _, _)
Ranked(docs, q, done) ==
    LET rest == (DOMAIN docs) \ done
    IN  IF rest = {} THEN <<>>
        ELSE LET best == CHOOSE i \in rest : \A j \in rest :
                             \/ Distance(docs[i].embedding, q) < Distance(docs[j].embedding, q)
                             \/ /\ Distance(docs[i].embedding, q) = Distance(docs[j].embedding, q)
                                /\ i <= j
             IN  <<best>> \o Ranked(docs, q, done \cup {best})

\* the search returns every chunk of the store
similarity_search_by_vector_All(vector_store, query_embedding, k) ==
    LET order == Ranked(vector_store.docs, query_embedding, {})
    IN  [i \in 1..Len(order) |-> vector_store.docs[order[i]]]

similarity_search_by_vector(vector_store, query_embedding, k) ==
    LET order == Ranked(vector_store.docs, query_embedding, {})
        n == IF Len(order) < k THEN Len(order) ELSE k
    IN  [i \in 1..n |-> vector_store.docs[order[i]]]

\* the chunks are joined last first
CombinedCode_Reversed(relevant_docs) ==
    Join(<<LF, LF>>, [i \in 1..Len(relevant_docs) |->
                         relevant_docs[Len(relevant_docs) + 1 - i].page_content])

\* "\n\n".join([doc.page_content for doc in relevant_docs])
CombinedCode(relevant_docs) ==
    Join(<<LF, LF>>, [i \in 1..Len(relevant_docs) |-> relevant_docs[i].page_content])

Retrieve(query, embedding_model, vector_store) ==
    CombinedCode(similarity_search_by_vector(vector_store,
                                             embed_query(embedding_model, query), K))

\* the locals of the retrieval: query_embedding and relevant_docs
RetrievalStep(query, embedding_model, vector_store) ==
    [query_embedding |-> embed_query(embedding_model, query),
     relevant_docs |-> similarity_search_by_vector(vector_store,
                                                   embed_query(embedding_model, query), K)]

(***************************************************************************)
(* app/RAG: the RAG-backed implementations; API_KEY is the module global   *)
(* of app/RAG/config.py                                                    *)
(***************************************************************************)
\* an empty context is an error
RagInvoke_NeedsContext(combined_code, default, API_KEY, llm) ==
    IF ~Truthy(API_KEY) THEN Raised("ValueError", <<>>, NoText, NoText)
    ELSE IF combined_code = <<>>
    THEN Raised("ValueError", <<"embed", "search">>, API_KEY.s, combined_code)
    ELSE IF llm.exc # "none"
    THEN Raised(llm.exc, <<"embed", "search", "llm">>, API_KEY.s, combined_code)
    ELSE Decode(StripFence(llm.text), default, <<"embed", "search", "llm">>, API_KEY.s,
                combined_code, llm.text)

\* the fenced block is not removed
RagInvoke_KeepFence(combined_code, default, API_KEY, llm) ==
    IF ~Truthy(API_KEY) THEN Raised("ValueError", <<>>, NoText, NoText)
    ELSE IF llm.exc # "none"
    THEN Raised(llm.exc, <<"embed", "search", "llm">>, API_KEY.s, combined_code)
    ELSE Decode(llm.text, default, <<"embed", "search", "llm">>, API_KEY.s,
                combined_code, llm.text)

RagInvoke(combined_code, default, API_KEY, llm) ==
    IF ~Truthy(API_KEY) THEN Raised("ValueError", <<>>, NoText, NoText)
    ELSE IF llm.exc # "none"
    THEN Raised(llm.exc, <<"embed", "search", "llm">>, API_KEY.s, combined_code)
    ELSE Decode(StripFence(llm.text), default, <<"embed", "search", "llm">>, API_KEY.s,
                combined_code, llm.text)

Rag_analyze_code(query, embedding_model, vector_store, API_KEY, llm) ==
    RagInvoke(Retrieve(query, embedding_model, vector_store), IssuesDefault, API_KEY, llm)

Rag_get_code_metrics(query, embedding_model, vector_store, API_KEY, llm) ==
    RagInvoke(Retrieve(query, embedding_model, vector_store), MetricsDefault, API_KEY, llm)

InjectDefaultOf(combined_code_for_injection) ==
    InjectDefault(JStr(combined_code_for_injection))

RagInjectInvoke(combined_code_for_injection, API_KEY, llm) ==
    RagInvoke(combined_code_for_injection, InjectDefaultOf(combined_code_for_injection),
              API_KEY, llm)

Rag_inject_bugs(query, embedding_model, vector_store, bug_type, severity_level, num_bugs, API_KEY, llm) ==
    RagInjectInvoke(Retrieve(query, embedding_model, vector_store), API_KEY, llm)

(***************************************************************************)
(* pydantic: the validation of one field of a response model.  A str field *)
(* takes a str; pydantic 1 also turns a number into its text, pydantic 2   *)
(* rejects it.  An int field takes an int, a bool (as 0 or 1) and a str of *)
(* digits.  [ok |-> FALSE] stands for pydantic's ValidationError, which is *)
(* a ValueError.                                                           *)
(***************************************************************************)
RECURSIVE NatToStr(_)
NatToStr(n) ==
    LET d == CHOOSE c \in Digits : DigitVal(c) = n % 10
    IN  IF n < 10 THEN <<d>> ELSE Append(NatToStr(n \div 10), d)

IntToStr(n) == IF n < 0 THEN <<"-">> \o NatToStr(0 - n) ELSE NatToStr(n)

IsIntText(s) ==
    LET body == IF Len(s) > 0 /\ s[1] = "-" THEN Tail(s) ELSE s
    IN  Len(body) > 0 /\ \A i \in DOMAIN body : body[i] \in Digits

TextToInt(s) ==
    IF s[1] = "-" THEN 0 - ScanDigits(s, 2, 0).val ELSE ScanDigits(s, 1, 0).val

Valid(val) == [ok |-> TRUE, val |-> val]
Invalid == [ok |-> FALSE, val |-> None]

StrField(v, pydantic) ==
    CASE v.t = "str" -> Valid(v)
      [] v.t = "num" /\ pydantic = "v1" -> Valid(JStr(IntToStr(v.n)))
      [] v.t = "bool" /\ pydantic = "v1" -> Valid(Str(IF v.b THEN "True" ELSE "False"))
      [] OTHER -> Invalid

IntField(v) ==
    CASE v.t = "num" -> Valid(v)
      [] v.t = "bool" -> Valid(JNum(IF v.b THEN 1 ELSE 0))
      [] v.t = "str" /\ IsIntText(v.s) -> Valid(JNum(TextToInt(v.s)))
      [] OTHER -> Invalid

OptionalIntField(v) == IF v.t = "null" THEN Valid(None) ELSE IntField(v)

\* for x in v: [ok |-> FALSE] stands for TypeError (v is not iterable); a dict
\* gives its keys and a str its characters
SetToSeq(S) ==
    LET RECURSIVE Build(_)
        Build(T) == IF T = {} THEN <<>>
                    ELSE LET x == CHOOSE y \in T : TRUE IN <<x>> \o Build(T \ {x})
    IN  Build(S)

Iterate(v) ==
    CASE v.t = "list" -> [ok |-> TRUE, items |-> v.a]
      [] v.t = "dict" ->
            LET keys == SetToSeq(DOMAIN v.d)
            IN  [ok |-> TRUE, items |-> [i \in 1..Len(keys) |-> JStr(keys[i])]]
      [] v.t = "str" -> [ok |-> TRUE, items |-> [i \in 1..Len(v.s) |-> Str(v.s[i])]]
      [] OTHER -> [ok |-> FALSE, items |-> <<>>]

NotCalled == Raised("notcalled", <<>>, NoText, NoText)

\* get_stored_code() is imported from routes_code_input, which does not define it:
\* the endpoints are modelled with the value it returns given by the environment
get_stored_code(stored) == stored

(***************************************************************************)
(* app/api/routes_analyze_code.py                                          *)
(***************************************************************************)
\* IssueDetail(title=issue.get("title", ""), ...): no issue when the item has no
\* get (it is not a dict) or a field fails validation
IssueDetail(issue, pydantic) ==
    LET title == StrField(Get(issue, "title", EmptyStr), pydantic)
        type == StrField(Get(issue, "type", EmptyStr), pydantic)
        severity == StrField(Get(issue, "severity", EmptyStr), pydantic)
        lineNumber == OptionalIntField(Get(issue, "lineNumber", None))
        description == StrField(Get(issue, "description", EmptyStr), pydantic)
        suggestedFix == StrField(Get(issue, "suggestedFix", EmptyStr), pydantic)
    IN  IF /\ issue.t = "dict"
           /\ title.ok /\ type.ok /\ severity.ok /\ lineNumber.ok
           /\ description.ok /\ suggestedFix.ok
        THEN Valid([title |-> title.val, type |-> type.val, severity |-> severity.val,
                    lineNumber |-> lineNumber.val, description |-> description.val,
                    suggestedFix |-> suggestedFix.val])
        ELSE Invalid

AnalyzeCodeResponse(status, issues, total_issues, error_message) ==
    [status |-> status, issues |-> issues, total_issues |-> total_issues,
     error_message |-> error_message]

\* the items that become an IssueDetail, in order ("Skip malformed issues")
FormatIssues(items, pydantic) ==
    LET kept == SelectSeq(items, LAMBDA issue : IssueDetail(issue, pydantic).ok)
    IN  [i \in 1..Len(kept) |-> IssueDetail(kept[i], pydantic).val]

\* for issue in result.get("issues", []): ... and the response
AnalyzeCodeFormatted(issues, pydantic) ==
    LET formatted_issues == FormatIssues(issues.items, pydantic)
    IN  IF ~issues.ok
        THEN AnalyzeCodeResponse("error", <<>>, 0, Str("Error analyzing code"))
        ELSE AnalyzeCodeResponse("success", formatted_issues, Len(formatted_issues), None)

\* the handler from the return of analyze_code on
AnalyzeCodeHandled(result, pydantic) ==
    [fn |-> result,
     resp |-> IF result.exc = "ValueError"
              THEN AnalyzeCodeResponse("error", <<>>, 0, Str("ValueError"))
              ELSE IF result.exc # "none"
              THEN AnalyzeCodeResponse("error", <<>>, 0, Str("Error analyzing code"))
              ELSE IF result.val.t # "dict"
              THEN AnalyzeCodeResponse("error", <<>>, 0,
                                       Str("Unexpected response format from AI service"))
              ELSE AnalyzeCodeFormatted(Iterate(Get(result.val, "issues", EmptyList)),
                                        pydantic)]

analyze_code_endpoint(request, stored, DEFAULT_API_KEY, llm, pydantic) ==
    LET code_to_analyze == IF Truthy(request.code) THEN request.code
                           ELSE get_stored_code(stored)
    IN  IF ~Truthy(code_to_analyze)
        THEN [fn |-> NotCalled,
              resp |-> AnalyzeCodeResponse("error", <<>>, 0, Str("No code provided"))]
        ELSE AnalyzeCodeHandled(Svc_analyze_code(code_to_analyze, request.api_key,
                                                 DEFAULT_API_KEY, llm),
                                pydantic)

(***************************************************************************)
(* app/api/routes_code_metrics.py                                          *)
(***************************************************************************)
SummaryMetrics(code_quality_score, security_rating, bug_density, critical_issue_count) ==
    LET a == IntField(code_quality_score)
        b == IntField(security_rating)
        c == IntField(bug_density)
        d == IntField(critical_issue_count)
    IN  IF a.ok /\ b.ok /\ c.ok /\ d.ok
        THEN Valid([code_quality_score |-> a.val, security_rating |-> b.val,
                    bug_density |-> c.val, critical_issue_count |-> d.val])
        ELSE Invalid

IssueDistribution(security_vulnerabilities, code_smells, best_practices, performance_issues) ==
    LET a == IntField(security_vulnerabilities)
        b == IntField(code_smells)
        c == IntField(best_practices)
        d == IntField(performance_issues)
    IN  IF a.ok /\ b.ok /\ c.ok /\ d.ok
        THEN Valid([security_vulnerabilities |-> a.val, code_smells |-> b.val,
                    best_practices |-> c.val, performance_issues |-> d.val])
        ELSE Invalid

MetricsResponse(status, summary_metrics, issue_distribution, error_message) ==
    [status |-> status, summary_metrics |-> summary_metrics,
     issue_distribution |-> issue_distribution, error_message |-> error_message]

\* the response of every error path of the endpoint
MetricsError(error_message) ==
    MetricsResponse("error",
                    SummaryMetrics(JNum(0), JNum(0), JNum(0), JNum(0)).val,
                    IssueDistribution(JNum(0), JNum(0), JNum(0), JNum(0)).val,
                    error_message)

\* the exceptions of the formatting are not caught: the server answers 500
MetricsFormatted_Uncaught(summary_metrics, issue_distribution) ==
    LET summary == SummaryMetrics(Get(summary_metrics, "code_quality_score", JNum(0)),
                                  Get(summary_metrics, "security_rating", JNum(0)),
                                  Get(summary_metrics, "bug_density", JNum(0)),
                                  Get(summary_metrics, "critical_issue_count", JNum(0)))
        distribution ==
            IssueDistribution(Get(issue_distribution, "security_vulnerabilities", JNum(0)),
                              Get(issue_distribution, "code_smells", JNum(0)),
                              Get(issue_distribution, "best_practices", JNum(0)),
                              Get(issue_distribution, "performance_issues", JNum(0)))
    IN  IF summary_metrics.t # "dict" \/ issue_distribution.t # "dict"
        THEN [status |-> "500"]
        ELSE IF ~summary.ok \/ ~distribution.ok
        THEN [status |-> "500"]
        ELSE MetricsResponse("success", summary.val, distribution.val, None)

\* SummaryMetrics(...) and IssueDistribution(...) of the two sub-objects;
\* summary_metrics.get, issue_distribution.get: AttributeError; pydantic's
\* ValidationError is caught as a ValueError
MetricsFormatted(summary_metrics, issue_distribution) ==
    LET summary == SummaryMetrics(Get(summary_metrics, "code_quality_score", JNum(0)),
                                  Get(summary_metrics, "security_rating", JNum(0)),
                                  Get(summary_metrics, "bug_density", JNum(0)),
                                  Get(summary_metrics, "critical_issue_count", JNum(0)))
        distribution ==
            IssueDistribution(Get(issue_distribution, "security_vulnerabilities", JNum(0)),
                              Get(issue_distribution, "code_smells", JNum(0)),
                              Get(issue_distribution, "best_practices", JNum(0)),
                              Get(issue_distribution, "performance_issues", JNum(0)))
    IN  IF summary_metrics.t # "dict" \/ issue_distribution.t # "dict"
        THEN MetricsError(Str("Error getting code metrics"))
        ELSE IF ~summary.ok \/ ~distribution.ok
        THEN MetricsError(Str("ValueError"))
        ELSE MetricsResponse("success", summary.val, distribution.val, None)

\* the handler from the return of get_code_metrics on; result.get: AttributeError
MetricsHandled(result) ==
    [fn |-> result,
     resp |-> IF result.exc = "ValueError"
              THEN MetricsError(Str("ValueError"))
              ELSE IF result.exc # "none" \/ result.val.t # "dict"
              THEN MetricsError(Str("Error getting code metrics"))
              ELSE MetricsFormatted(Get(result.val, "summary_metrics", EmptyDict),
                                    Get(result.val, "issue_distribution", EmptyDict))]

code_metrics_endpoint(request, stored, DEFAULT_API_KEY, llm) ==
    LET code_to_analyze == IF Truthy(request.code) THEN request.code
                           ELSE get_stored_code(stored)
    IN  IF ~Truthy(code_to_analyze)
        THEN [fn |-> NotCalled, resp |-> MetricsError(Str("No code provided"))]
        ELSE MetricsHandled(Svc_get_code_metrics(code_to_analyze, request.api_key,
                                                 DEFAULT_API_KEY, llm))

(***************************************************************************)
(* app/api/routes_inject_bugs.py                                           *)
(***************************************************************************)
\* the upper limits are missing
InjectBugsRequest_NoUpper(request) ==
    request.severity_level >= 1 /\ request.num_bugs >= 1

\* Field(ge=1, le=5) and Field(ge=1, le=10)
InjectBugsRequest(request) ==
    /\ request.severity_level >= 1 /\ request.severity_level <= 5
    /\ request.num_bugs >= 1 /\ request.num_bugs <= 10

BugDetail(bug, pydantic) ==
    LET type == StrField(Get(bug, "type", EmptyStr), pydantic)
        line_number == IntField(Get(bug, "line_number", JNum(0)))
        description == StrField(Get(bug, "description", EmptyStr), pydantic)
    IN  IF bug.t = "dict" /\ type.ok /\ line_number.ok /\ description.ok
        THEN Valid([type |-> type.val, line_number |-> line_number.val,
                    description |-> description.val])
        ELSE Invalid

InjectBugsResponse(status, buggy_code, bugs_injected, total_bugs_injected) ==
    [status |-> status, buggy_code |-> buggy_code, bugs_injected |-> bugs_injected,
     total_bugs_injected |-> total_bugs_injected]

\* the items that become a BugDetail, in order ("Skip malformed bugs")
FormatBugs(items, pydantic) ==
    LET kept == SelectSeq(items, LAMBDA bug : BugDetail(bug, pydantic).ok)
    IN  [i \in 1..Len(kept) |-> BugDetail(kept[i], pydantic).val]

\* the response to a request that fails the validation of its model: the handler
\* does not run
Unprocessable == [status |-> "422"]

\* the total counts the bugs of the result, those that are skipped too
InjectFormatted_CountAll(buggy_code, bugs_injected, pydantic) ==
    LET formatted_bugs == FormatBugs(bugs_injected.items, pydantic)
    IN  IF ~bugs_injected.ok \/ ~buggy_code.ok
        THEN InjectBugsResponse("error", EmptyStr, <<>>, 0)
        ELSE InjectBugsResponse("success", buggy_code.val, formatted_bugs,
                                Len(bugs_injected.items))

\* for bug in bugs_injected: TypeError; InjectBugsResponse(buggy_code=...):
\* ValidationError
InjectFormatted(buggy_code, bugs_injected, pydantic) ==
    LET formatted_bugs == FormatBugs(bugs_injected.items, pydantic)
    IN  IF ~bugs_injected.ok \/ ~buggy_code.ok
        THEN InjectBugsResponse("error", EmptyStr, <<>>, 0)
        ELSE InjectBugsResponse("success", buggy_code.val, formatted_bugs,
                                Len(formatted_bugs))

\* the handler from the return of inject_bugs on; result.get: AttributeError
InjectHandled(result, pydantic) ==
    [fn |-> result,
     resp |-> IF result.exc # "none" \/ result.val.t # "dict"
              THEN InjectBugsResponse("error", EmptyStr, <<>>, 0)
              ELSE InjectFormatted(StrField(Get(result.val, "buggy_code", EmptyStr),
                                            pydantic),
                                   Iterate(Get(result.val, "bugs_injected", EmptyList)),
                                   pydantic)]

inject_bugs_endpoint(request, stored, DEFAULT_API_KEY, llm, pydantic) ==
    LET code_to_analyze == IF Truthy(request.code) THEN request.code
                           ELSE get_stored_code(stored)
    IN  IF ~InjectBugsRequest(request)
        THEN [fn |-> NotCalled, resp |-> Unprocessable]
        ELSE IF ~Truthy(code_to_analyze)
        THEN [fn |-> NotCalled, resp |-> InjectBugsResponse("error", EmptyStr, <<>>, 0)]
        ELSE InjectHandled(Svc_inject_bugs(code_to_analyze, request.bug_type,
                                           request.severity_level, request.num_bugs,
                                           request.api_key, DEFAULT_API_KEY, llm),
                           pydantic)

(***************************************************************************)
(* app/RAG/vector_store.py: loading and indexing                           *)
(***************************************************************************)
chunk_size == 1000
chunk_overlap == 200

\* RecursiveCharacterTextSplitter: the separators, in the order they are tried
Separators == << <<LF, LF>>, <<LF>>, <<SP>>, <<>> >>

Max(S) == CHOOSE x \in S : \A y \in S : y <= x

\* the members of a set of numbers in ascending order
Sorted(S) == [k \in 1..Cardinality(S) |-> CHOOSE x \in S : Cardinality({y \in S : y <= x}) = k]

\* _split_text: the first separator, from the one at from on, that is the empty text
\* or occurs in text
RECURSIVE PickSeparator(_, _)
PickSeparator(text, from) ==
    IF Separators[from] = <<>> \/ Occurrences(text, Separators[from]) # {} THEN from
    ELSE PickSeparator(text, from + 1)

\* re.split: the starts of the matches of separator in text, from left to right and
\* not overlapping (a separator is one symbol, or one symbol twice)
SeparatorMatches(text, separator) ==
    {i \in Occurrences(text, separator) :
        \/ Len(separator) = 1
        \/ LET before == {j \in 1..(i - 1) : text[j] # separator[1]}
               run == IF before = {} THEN i - 1 ELSE i - 1 - Max(before)
           IN  run % Len(separator) = 0}

\* _split_text_with_regex with keep_separator: a piece goes from a match to the
\* next one, the first piece up to the first match, and no piece is empty.  The
\* starts of the pieces in order, followed by the end of the text; with the empty
\* separator every symbol is a piece
PieceStarts(text, separator) ==
    IF separator = <<>> THEN [k \in 1..(Len(text) + 1) |-> k]
    ELSE Sorted({1, Len(text) + 1} \cup SeparatorMatches(text, separator))

\* _merge_splits, one round of its loop, for piece d: current_doc is the pieces from
\* st.a to the one before d and total is its length (the pieces are joined with the
\* empty text, the separators being kept in them).  When d does not fit, current_doc
\* becomes a document and loses pieces at its front until it is no longer than
\* chunk_overlap and d fits
MergeStep(starts, d, st) ==
    LET len == starts[d + 1] - starts[d]
        total == starts[d] - starts[st.a]
        stay == {x \in st.a..d :
                    ~ \/ starts[d] - starts[x] > chunk_overlap
                      \/ /\ starts[d] - starts[x] + len > chunk_size
                         /\ starts[d] - starts[x] > 0}
    IN  IF total + len > chunk_size /\ d > st.a
        THEN [docs |-> Append(st.docs, <<starts[st.a], starts[d] - 1>>), a |-> Min(stay)]
        ELSE st

\* the loop of _merge_splits over the pieces lo..hi, first half first (the test is
\* there for the first half to be evaluated before the second)
RECURSIVE MergeRange(_, _, _, _)
MergeRange(starts, lo, hi, st) ==
    IF lo > hi THEN st
    ELSE IF lo = hi THEN MergeStep(starts, lo, st)
    ELSE LET half == MergeRange(starts, lo, (lo + hi) \div 2, st)
         IN  IF half.a > 0 THEN MergeRange(starts, ((lo + hi) \div 2) + 1, hi, half)
             ELSE half

\* _merge_splits of the pieces first..last: the documents, each as the first and the
\* last position of its text
MergeSplitsFrom(starts, last, st) ==
    Append(st.docs, <<starts[st.a], starts[last + 1] - 1>>)

MergeSplits(starts, first, last) ==
    IF first > last THEN <<>>
    ELSE MergeSplitsFrom(starts, last,
                         MergeRange(starts, first, last, [docs |-> <<>>, a |-> first]))

\* _join_docs with strip_whitespace: a document is stripped, and dropped when nothing
\* is left
JoinDocs(text, ranges) ==
    SelectSeq([i \in 1..Len(ranges) |-> Strip(SubSeq(text, ranges[i][1], ranges[i][2]))],
              LAMBDA doc : doc # <<>>)

\* _split_text(text, separators), the separators being those from the one at from on;
\* SplitPieces is its loop over the pieces from g on, which are _good_splits up to the
\* first piece that is not shorter than chunk_size
RECURSIVE SplitText(_, _)
RECURSIVE SplitPieces(_, _, _, _)
SplitLong(text, starts, g, s, long) ==
    JoinDocs(text, MergeSplits(starts, g, long - 1))
    \o (IF Separators[s] = <<>> THEN <<SubSeq(text, starts[long], starts[long + 1] - 1)>>
        ELSE SplitText(SubSeq(text, starts[long], starts[long + 1] - 1), s + 1))
    \o SplitPieces(text, starts, long + 1, s)

SplitPieces(text, starts, g, s) ==
    IF \A p \in g..(Len(starts) - 1) : starts[p + 1] - starts[p] < chunk_size
    THEN JoinDocs(text, MergeSplits(starts, g, Len(starts) - 1))
    ELSE SplitLong(text, starts, g, s,
                   Min({p \in g..(Len(starts) - 1) : starts[p + 1] - starts[p] >= chunk_size}))

SplitWith(text, s) == SplitPieces(text, PieceStarts(text, Separators[s]), 1, s)

SplitText(text, from) == SplitWith(text, PickSeparator(text, from))

\* create_documents: a Document for each chunk
AsDocuments(chunks) == [i \in 1..Len(chunks) |-> [page_content |-> chunks[i]]]

\* RecursiveCharacterTextSplitter(chunk_size=1000, chunk_overlap=200).split_documents
RECURSIVE split_documents(_)
split_documents(documents) ==
    IF documents = <<>> THEN <<>>
    ELSE AsDocuments(SplitText(documents[1].page_content, 1))
         \o split_documents(Tail(documents))

\* the chunks are embedded with a model that is not the one of the store
add_documents_OtherModel(vector_store, code_chunks) ==
    [vector_store EXCEPT !.docs = @ \o
        [i \in 1..Len(code_chunks) |->
            [page_content |-> code_chunks[i].page_content,
             embedding |-> embed_query([model_name |-> "other"],
                                       code_chunks[i].page_content)]]]

\* Chroma.add_documents: every chunk is embedded with the embedding function of
\* the store and appended
add_documents(vector_store, code_chunks) ==
    [vector_store EXCEPT !.docs = @ \o
        [i \in 1..Len(code_chunks) |->
            [page_content |-> code_chunks[i].page_content,
             embedding |-> embed_query(vector_store.embedding_function,
                                       code_chunks[i].page_content)]]]

\* the directories of the file system, as os.path.isdir and DirectoryLoader see them
Directories == {<<"dir">>}
DirectoryLoader(path) == <<[page_content |-> <<"def", SP, "loaded">>]>>

\* the chunks of the call take the place of the chunks of the store
load_and_index_code_Replace(code_input, embedding_model, vector_store) ==
    LET documents ==
            IF code_input.t = "str" THEN DirectoryLoader(code_input.s)
            ELSE [i \in 1..Len(code_input.a) |-> [page_content |-> code_input.a[i].s]]
        code_chunks == split_documents(documents)
    IN  IF \/ code_input.t = "str" /\ code_input.s \in Directories
           \/ code_input.t = "list"
        THEN [ok |-> TRUE,
              vector_store |-> add_documents([vector_store EXCEPT !.docs = <<>>],
                                             code_chunks),
              effects |-> <<"embed", "index_write">>]
        ELSE [ok |-> FALSE, vector_store |-> vector_store, effects |-> <<>>]

\* [ok |-> FALSE] stands for ValueError("code_input must be a directory path ...")
load_and_index_code(code_input, embedding_model, vector_store) ==
    LET documents ==
            IF code_input.t = "str" THEN DirectoryLoader(code_input.s)
            ELSE [i \in 1..Len(code_input.a) |-> [page_content |-> code_input.a[i].s]]
        code_chunks == split_documents(documents)
    IN  IF \/ code_input.t = "str" /\ code_input.s \in Directories
           \/ code_input.t = "list"
        THEN [ok |-> TRUE, vector_store |-> add_documents(vector_store, code_chunks),
              effects |-> <<"embed", "index_write">>]
        ELSE [ok |-> FALSE, vector_store |-> vector_store, effects |-> <<>>]

(***************************************************************************)
(* app/RAG/config.py                                                       *)
(***************************************************************************)
SQ == "SQ"

Unquote(s, q) ==
    IF StartsWith(s, <<q>>) /\ EndsWith(s, <<q>>) THEN SubSeq(s, 2, Len(s) - 1) ELSE s

\* [ok |-> FALSE] stands for RuntimeError("API_KEY missing. ...")
load_api_key(environ) ==
    IF ~Truthy(environ) THEN [ok |-> FALSE, key |-> <<>>]
    ELSE [ok |-> TRUE, key |-> Unquote(Unquote(environ.s, DQ), SQ)]

\* the module global API_KEY of app/RAG/config.py
RagApiKey(environ) ==
    IF load_api_key(environ).ok THEN JStr(load_api_key(environ).key) ELSE None

\* the module global DEFAULT_API_KEY of app/services.py
SvcDefaultApiKey(environ) == environ

(***************************************************************************)
(* app/api/routes_code_input.py                                            *)
(***************************************************************************)
\* Field(..., min_items=1)
CodeInputRequest(request) == Len(request.code_snippets.a) >= 1

\* the pair of caches after get_vector_store_and_embeddings()
get_vector_store_and_embeddings(embedding_model_cache, vector_store_cache) ==
    IF vector_store_cache = None \/ embedding_model_cache = None
    THEN initialize_vector_store_and_embeddings
    ELSE [embedding_model |-> embedding_model_cache, vector_store |-> vector_store_cache]

CodeInputResponse(status, message, snippets_loaded) ==
    [status |-> status, message |-> message, snippets_loaded |-> snippets_loaded]

code_input_endpoint(request, embedding_model_cache, vector_store_cache) ==
    LET pair == get_vector_store_and_embeddings(embedding_model_cache, vector_store_cache)
        loaded == load_and_index_code(request.code_snippets, pair.embedding_model,
                                      pair.vector_store)
    IN  IF ~CodeInputRequest(request)
        THEN [resp |-> Unprocessable, effects |-> <<>>,
              embedding_model_cache |-> embedding_model_cache,
              vector_store_cache |-> vector_store_cache]
        ELSE IF ~loaded.ok
        THEN [resp |-> [status |-> "500"], effects |-> loaded.effects,
              embedding_model_cache |-> pair.embedding_model,
              vector_store_cache |-> pair.vector_store]
        ELSE [resp |-> CodeInputResponse("success", "loaded",
                                         Len(request.code_snippets.a)),
              effects |-> loaded.effects,
              embedding_model_cache |-> pair.embedding_model,
              vector_store_cache |-> loaded.vector_store]

(***************************************************************************)
(* The inputs: model texts, codes, credentials, requests                   *)
(***************************************************************************)
\* JSON text
Q(w) == <<DQ, w, DQ>>
KV(k, v) == Q(k) \o <<":">> \o v
Obj(members) == <<"{">> \o Join(<<",">>, members) \o <<"}">>
Arr(items) == <<"[">> \o Join(<<",", SP>>, items) \o <<"]">>

\* the fenced block around a text
Wrap(J) == FenceJsonLine \o J \o LineFenceEnd

\* the largest number of fenced blocks around a model text
MaxFences == 2

RECURSIVE WrapN(_, _)
WrapN(n, J) == IF n = 0 THEN J ELSE Wrap(WrapN(n - 1, J))

\* every cut of a text short of its end
Truncations(t) == {SubSeq(t, 1, n) : n \in 0..(Len(t) - 1)}

IssueFull ==
    Obj(<<KV("title", Q("T")), KV("type", Q("Bug")), KV("severity", Q("High")),
          KV("lineNumber", <<"1", "0">>), KV("description", Q("D")),
          KV("suggestedFix", Q("F"))>>)
IssuePartial == Obj(<<KV("title", Q("T")), KV("extra", Q("x"))>>)
IssueNoLine == Obj(<<KV("type", Q("Bug")), KV("severity", Q("Low"))>>)
IssueBadTitle == Obj(<<KV("title", <<"7">>), KV("lineNumber", Q("x"))>>)
IssuesDoc(items) == Obj(<<KV("issues", Arr(items))>>)

MetricsFull ==
    Obj(<<KV("summary_metrics",
             Obj(<<KV("code_quality_score", <<"8", "5">>), KV("security_rating", <<"9", "0">>),
                   KV("bug_density", <<"1">>), KV("critical_issue_count", <<"0">>)>>)),
          KV("issue_distribution",
             Obj(<<KV("security_vulnerabilities", <<"0">>), KV("code_smells", <<"2">>),
                   KV("best_practices", <<"1">>), KV("performance_issues", <<"0">>)>>))>>)
MetricsPartial ==
    Obj(<<KV("summary_metrics",
             Obj(<<KV("security_rating", <<"9", "0">>), KV("extra", Q("x"))>>)),
          KV("issue_distribution", Obj(<<KV("code_smells", <<"2">>)>>))>>)
MetricsNoDistribution ==
    Obj(<<KV("summary_metrics", Obj(<<KV("bug_density", <<"3">>)>>))>>)
MetricsBadScore ==
    Obj(<<KV("summary_metrics", Obj(<<KV("code_quality_score", Q("good"))>>))>>)
MetricsNullSummary == Obj(<<KV("summary_metrics", <<"null">>)>>)
MetricsOutOfRange ==
    Obj(<<KV("summary_metrics",
             Obj(<<KV("code_quality_score", <<"2", "5", "0">>),
                   KV("bug_density", <<"-", "1">>)>>))>>)

BugFull == Obj(<<KV("type", Q("SQL")), KV("line_number", <<"2">>), KV("description", Q("D"))>>)
BugPartial == Obj(<<KV("description", Q("D")), KV("extra", <<"1">>)>>)
BugBadLine == Obj(<<KV("type", Q("SQL")), KV("line_number", Q("two"))>>)
InjectDoc(code, bugs) == Obj(<<KV("buggy_code", code), KV("bugs_injected", Arr(bugs))>>)

\* JSON texts of any shape
AnyShape ==
    {<<"null">>, <<"true">>, <<"7">>, Q("x"), <<"[", "]">>, <<"[", "1", ",", "2", "]">>,
     <<"{", "}">>, <<SP, "{", SP, "}", LF>>}

\* texts that are no JSON
Garbage ==
    {<<>>, <<"Sorry">>, <<"{", "]">>, <<"0", "1">>, <<"[", "1", ",", "]">>,
     <<"{", DQ, "a", LF, DQ, ":", "1", "}">>, <<"{", "}", LF, BT, BT, BT, LF, "x">>,
     <<"{", DQ, "a", DQ, ":", DQ, LF, BT, BT, BT, DQ, "}">>,
     <<"{", DQ, "a", DQ, ":", DQ, BT, BT, BT, DQ, "}", "x">>}

\* JSON texts with backticks inside a string
Ticks == {Obj(<<KV("a", <<DQ, BT, BT, BT, DQ>>)>>), Obj(<<KV("a", <<DQ, BT, BT, BT, "json", DQ>>)>>)}

IssuesBodies ==
    {IssuesDoc(<<>>), IssuesDoc(<<IssueFull>>), IssuesDoc(<<IssuePartial, IssueFull>>),
     IssuesDoc(<<IssueNoLine>>), IssuesDoc(<<IssueBadTitle, IssuePartial>>),
     IssuesDoc(<<<<"7">>, IssueNoLine>>), Obj(<<KV("issues", <<"null">>)>>),
     Obj(<<KV("issues", Q("x"))>>), Obj(<<KV("issues", Obj(<<KV("title", Q("T"))>>))>>),
     Obj(<<KV("other", <<"1">>)>>)}

MetricsBodies ==
    {MetricsFull, MetricsPartial, MetricsNoDistribution, MetricsBadScore,
     MetricsNullSummary, MetricsOutOfRange, Obj(<<KV("summary_metrics", <<"[", "]">>)>>)}

InjectBodies ==
    {InjectDoc(Q("buggy"), <<>>), InjectDoc(Q("buggy"), <<BugFull>>),
     InjectDoc(Q("buggy"), <<BugPartial, BugFull>>), InjectDoc(Q("buggy"), <<BugBadLine, BugFull>>),
     InjectDoc(<<"null">>, <<BugFull>>), Obj(<<KV("bugs_injected", Arr(<<BugPartial>>))>>),
     Obj(<<KV("buggy_code", Q("buggy")), KV("bugs_injected", <<"7">>)>>),
     Obj(<<KV("buggy_code", Q("buggy")), KV("bugs_injected", Q("x"))>>)}

\* what stands before and after the JSON text in a model text
Prefixes ==
    {<<>>, FenceJsonLine, FenceJson, FenceEnd \o <<LF>>, FenceJson \o <<"X", LF>>,
     <<"Sorry", LF>> \o FenceJsonLine}
Suffixes ==
    {<<>>, LineFenceEnd, FenceEnd, LineFenceEnd \o <<LF>>,
     LineFenceEnd \o <<LF, "x">> \o LineFenceEnd}

Bodies(shape) ==
    AnyShape \cup Garbage \cup Ticks \cup
    (CASE shape = "issues" -> IssuesBodies \cup Truncations(IssuesDoc(<<IssuePartial>>))
       [] shape = "metrics" -> MetricsBodies \cup Truncations(MetricsNoDistribution)
       [] shape = "inject" -> InjectBodies \cup Truncations(InjectDoc(Q("buggy"), <<BugPartial>>)))

\* the model texts of the text specification
TextInputs(shape) ==
    {WrapN(n, pre \o body \o suf) :
        n \in 0..MaxFences, pre \in Prefixes, body \in Bodies(shape), suf \in Suffixes}

\* the model texts of the system specification
ModelTexts(shape) ==
    LET bodies == AnyShape \cup {<<>>, <<"{", "]">>} \cup
                  (CASE shape = "issues" -> IssuesBodies
                     [] shape = "metrics" -> MetricsBodies
                     [] shape = "inject" -> InjectBodies)
    IN  bodies \cup {Wrap(IssuesDoc(<<IssueFull>>)), Wrap(MetricsFull),
                      Wrap(InjectDoc(Q("buggy"), <<BugFull>>))}

LlmOutcomes(shape) ==
    {LlmRaises("ValueError"), LlmRaises("Exception")} \cup
    {LlmReturns(t) : t \in ModelTexts(shape)}

CodeA == <<"def", SP, "f">>
CodeB == <<"import", SP, "os">>

\* the code of a request and the code get_stored_code() returns
CodePairs ==
    {<<None, None>>, <<EmptyStr, JStr(CodeB)>>, <<JStr(CodeA), JStr(CodeB)>>,
     <<JStr(CodeA), None>>}
UserKeys == {None, Str("STRING"), JStr(<<SP, "k1", SP>>)}

\* the requests of the analysis endpoints: the code, the stored code and the api_key
Requests ==
    {<<codes[1], codes[2], None>> : codes \in CodePairs} \cup
    {<<JStr(CodeA), JStr(CodeB), api_key>> : api_key \in UserKeys}

\* the severity_level and num_bugs of the requests
InjectParams == {<<5, 2>>, <<0, 2>>, <<6, 2>>, <<5, 0>>, <<5, 11>>}

\* the requests of the bug injection endpoint
InjectRequests ==
    {<<r, <<5, 2>>>> : r \in Requests} \cup
    {<<<<JStr(CodeA), None, api_key>>, params>> : api_key \in UserKeys, params \in InjectParams}
Environs == {None, JStr(<<SP>>), JStr(<<SQ, "k2", SQ>>)}
Queries == {<<"find", SP, "def">>, <<"import">>}

(***************************************************************************)
(* The state                                                               *)
(*   environ                the API_KEY environment variable               *)
(*   pydantic               the major version of pydantic in the build     *)
(*   embedding_model_cache, vector_store_cache                             *)
(*                          the module globals of routes_code_input.py     *)
(*   embedding_model, vector_store                                         *)
(*                          the pair a caller of the app/RAG functions     *)
(*                          holds (main of app/RAG/test.py)                *)
(*   cur                    the call in progress: the operation, its       *)
(*                          request, what the completion client does in    *)
(*                          it, the outcome of the function it called and  *)
(*                          the response, until the caller takes it        *)
(***************************************************************************)
VARIABLES environ, pydantic, embedding_model_cache, vector_store_cache,
          embedding_model, vector_store, cur

vars == <<environ, pydantic, embedding_model_cache, vector_store_cache,
          embedding_model, vector_store, cur>>

\* the largest number of chunks in a vector store
MaxChunks == 2

Idle == [op |-> "idle"]

\* what the completion client does in a call that never reaches it
NoLlm == LlmRaises("notcalled")

Call(op, impl, request, stored, llm, out) ==
    [op |-> op, impl |-> impl, request |-> request, stored |-> stored, llm |-> llm,
     fn |-> out.fn, resp |-> out.resp]

Init ==
    /\ environ \in Environs
    /\ pydantic \in {"v1", "v2"}
    /\ embedding_model_cache = None
    /\ vector_store_cache = None
    /\ embedding_model = initialize_vector_store_and_embeddings.embedding_model
    /\ vector_store = initialize_vector_store_and_embeddings.vector_store
    /\ cur = Idle

\* POST /api/analyze-code
AnalyzeCodeEndpoint ==
    /\ cur.op = "idle"
    /\ \E r \in Requests, llm \in LlmOutcomes("issues") :
          LET request == [code |-> r[1], api_key |-> r[3]]
              stored == r[2]
              out == analyze_code_endpoint(request, stored, SvcDefaultApiKey(environ),
                                           llm, pydantic)
          IN  cur' = Call("analyze", "api", request, stored, llm, out)
    /\ UNCHANGED <<environ, pydantic, embedding_model_cache, vector_store_cache,
                   embedding_model, vector_store>>

\* POST /api/code-metrics
CodeMetricsEndpoint ==
    /\ cur.op = "idle"
    /\ \E r \in Requests, llm \in LlmOutcomes("metrics") :
          LET request == [code |-> r[1], api_key |-> r[3]]
              stored == r[2]
              out == code_metrics_endpoint(request, stored, SvcDefaultApiKey(environ), llm)
          IN  cur' = Call("metrics", "api", request, stored, llm, out)
    /\ UNCHANGED <<environ, pydantic, embedding_model_cache, vector_store_cache,
                   embedding_model, vector_store>>

\* POST /api/inject-bugs
InjectBugsEndpoint ==
    /\ cur.op = "idle"
    /\ \E rp \in InjectRequests, llm \in LlmOutcomes("inject") :
          LET stored == rp[1][2]
              request == [code |-> rp[1][1], bug_type |-> <<"SQL">>,
                          severity_level |-> rp[2][1], num_bugs |-> rp[2][2],
                          api_key |-> rp[1][3]]
              out == inject_bugs_endpoint(request, stored, SvcDefaultApiKey(environ),
                                          llm, pydantic)
          IN  cur' = Call("inject", "api", request, stored, llm, out)
    /\ UNCHANGED <<environ, pydantic, embedding_model_cache, vector_store_cache,
                   embedding_model, vector_store>>

StoreSize(store) == IF store = None THEN 0 ELSE Len(store.docs)

\* POST /api/code-input
CodeInputEndpoint ==
    /\ cur.op = "idle"
    /\ \E snippets \in {<<>>, <<JStr(CodeA)>>, <<JStr(CodeB), JStr(CodeA)>>} :
          LET request == [code_snippets |-> JList(snippets)]
              out == code_input_endpoint(request, embedding_model_cache,
                                         vector_store_cache)
          IN  /\ StoreSize(vector_store_cache) + Len(snippets) <= MaxChunks
              /\ cur' = Call("ingest", "api", request, None, NoLlm,
                             [fn |-> Returned(None, out.effects, NoText, NoText, NoText,
                                              NoText, FALSE),
                              resp |-> out.resp])
              /\ embedding_model_cache' = out.embedding_model_cache
              /\ vector_store_cache' = out.vector_store_cache
    /\ UNCHANGED <<environ, pydantic, embedding_model, vector_store>>

\* load_and_index_code(code_input, embedding_model, vector_store), as in test_code_loading
LoadAndIndexCode ==
    /\ cur.op = "idle"
    /\ \E code_input \in {JList(<<JStr(CodeA)>>), JList(<<JStr(CodeB), JStr(CodeA)>>),
                          JList(<<JStr(<<SP>>), JStr(CodeA)>>),
                          JStr(<<"dir">>), JStr(<<"nodir">>)} :
          LET out == load_and_index_code(code_input, embedding_model, vector_store)
          IN  /\ Len(out.vector_store.docs) <= MaxChunks
              /\ cur' = Call("ingest", "rag", [code_input |-> code_input], None, NoLlm,
                             [fn |-> IF out.ok
                                     THEN Returned(Str("loaded"), out.effects, NoText,
                                                   NoText, NoText, NoText, FALSE)
                                     ELSE Raised("ValueError", out.effects, NoText, NoText),
                              resp |-> None])
              /\ vector_store' = out.vector_store
    /\ UNCHANGED <<environ, pydantic, embedding_model_cache, vector_store_cache,
                   embedding_model>>

\* analyze_code(query, embedding_model, vector_store), as in test_analyze_code
RagAnalyzeCode ==
    /\ cur.op = "idle"
    /\ \E query \in Queries, llm \in LlmOutcomes("issues") :
          cur' = Call("analyze", "rag", [query |-> query], None, llm,
                      [fn |-> Rag_analyze_code(query, embedding_model, vector_store,
                                               RagApiKey(environ), llm),
                       resp |-> None])
    /\ UNCHANGED <<environ, pydantic, embedding_model_cache, vector_store_cache,
                   embedding_model, vector_store>>

\* get_code_metrics(query, embedding_model, vector_store), as in test_get_metrics
RagGetCodeMetrics ==
    /\ cur.op = "idle"
    /\ \E query \in Queries, llm \in LlmOutcomes("metrics") :
          cur' = Call("metrics", "rag", [query |-> query], None, llm,
                      [fn |-> Rag_get_code_metrics(query, embedding_model, vector_store,
                                                   RagApiKey(environ), llm),
                       resp |-> None])
    /\ UNCHANGED <<environ, pydantic, embedding_model_cache, vector_store_cache,
                   embedding_model, vector_store>>

\* inject_bugs(query, embedding_model, vector_store, ...), as in test_inject_bugs
RagInjectBugs ==
    /\ cur.op = "idle"
    /\ \E query \in Queries, llm \in LlmOutcomes("inject") :
          cur' = Call("inject", "rag",
                      [query |-> query, bug_type |-> <<"SQL">>, severity_level |-> 5,
                       num_bugs |-> 2],
                      None, llm,
                      [fn |-> Rag_inject_bugs(query, embedding_model, vector_store,
                                              <<"SQL">>, 5, 2, RagApiKey(environ), llm),
                       resp |-> None])
    /\ UNCHANGED <<environ, pydantic, embedding_model_cache, vector_store_cache,
                   embedding_model, vector_store>>

\* the caller takes the response
Return ==
    /\ cur.op # "idle"
    /\ cur' = Idle
    /\ UNCHANGED <<environ, pydantic, embedding_model_cache, vector_store_cache,
                   embedding_model, vector_store>>

Next ==
    \/ AnalyzeCodeEndpoint
    \/ CodeMetricsEndpoint
    \/ InjectBugsEndpoint
    \/ CodeInputEndpoint
    \/ LoadAndIndexCode
    \/ RagAnalyzeCode
    \/ RagGetCodeMetrics
    \/ RagInjectBugs
    \/ Return

Spec == Init /\ [][Next]_vars

(***************************************************************************)
(* The text specification: each of the six operations, given a credential  *)
(* and one indexed chunk, on every model text of TextInputs                *)
(***************************************************************************)
Shapes == {"issues", "metrics", "inject"}

TextCase(shape, text) ==
    [op |-> "text", impl |-> "none", request |-> [shape |-> shape], stored |-> None,
     llm |-> LlmReturns(text), fn |-> NotCalled, resp |-> None]

InitText ==
    /\ environ = JStr(<<"k2">>)
    /\ pydantic = "v2"
    /\ embedding_model_cache = None
    /\ vector_store_cache = None
    /\ embedding_model = initialize_vector_store_and_embeddings.embedding_model
    /\ vector_store =
          add_documents(initialize_vector_store_and_embeddings.vector_store,
                        <<[page_content |-> CodeA]>>)
    /\ \E shape \in Shapes : \E text \in TextInputs(shape) : cur = TextCase(shape, text)

TextSvcAnalyzeCode ==
    /\ cur.op = "text" /\ cur.request.shape = "issues"
    /\ cur' = Call("analyze", "svc", [code |-> JStr(CodeB)], None, cur.llm,
                   [fn |-> Svc_analyze_code(JStr(CodeB), None, SvcDefaultApiKey(environ),
                                            cur.llm),
                    resp |-> None])
    /\ UNCHANGED <<environ, pydantic, embedding_model_cache, vector_store_cache,
                   embedding_model, vector_store>>

TextSvcGetCodeMetrics ==
    /\ cur.op = "text" /\ cur.request.shape = "metrics"
    /\ cur' = Call("metrics", "svc", [code |-> JStr(CodeB)], None, cur.llm,
                   [fn |-> Svc_get_code_metrics(JStr(CodeB), None,
                                                SvcDefaultApiKey(environ), cur.llm),
                    resp |-> None])
    /\ UNCHANGED <<environ, pydantic, embedding_model_cache, vector_store_cache,
                   embedding_model, vector_store>>

TextSvcInjectBugs ==
    /\ cur.op = "text" /\ cur.request.shape = "inject"
    /\ cur' = Call("inject", "svc", [code |-> JStr(CodeB)], None, cur.llm,
                   [fn |-> Svc_inject_bugs(JStr(CodeB), <<"SQL">>, 5, 2, None,
                                           SvcDefaultApiKey(environ), cur.llm),
                    resp |-> None])
    /\ UNCHANGED <<environ, pydantic, embedding_model_cache, vector_store_cache,
                   embedding_model, vector_store>>

TextRagAnalyzeCode ==
    /\ cur.op = "text" /\ cur.request.shape = "issues"
    /\ cur' = Call("analyze", "rag", [query |-> <<"import">>], None, cur.llm,
                   [fn |-> Rag_analyze_code(<<"import">>, embedding_model, vector_store,
                                            RagApiKey(environ), cur.llm),
                    resp |-> None])
    /\ UNCHANGED <<environ, pydantic, embedding_model_cache, vector_store_cache,
                   embedding_model, vector_store>>

TextRagGetCodeMetrics ==
    /\ cur.op = "text" /\ cur.request.shape = "metrics"
    /\ cur' = Call("metrics", "rag", [query |-> <<"import">>], None, cur.llm,
                   [fn |-> Rag_get_code_metrics(<<"import">>, embedding_model,
                                                vector_store, RagApiKey(environ), cur.llm),
                    resp |-> None])
    /\ UNCHANGED <<environ, pydantic, embedding_model_cache, vector_store_cache,
                   embedding_model, vector_store>>

TextRagInjectBugs ==
    /\ cur.op = "text" /\ cur.request.shape = "inject"
    /\ cur' = Call("inject", "rag", [query |-> <<"import">>], None, cur.llm,
                   [fn |-> Rag_inject_bugs(<<"import">>, embedding_model, vector_store,
                                           <<"SQL">>, 5, 2, RagApiKey(environ), cur.llm),
                    resp |-> None])
    /\ UNCHANGED <<environ, pydantic, embedding_model_cache, vector_store_cache,
                   embedding_model, vector_store>>

NextText ==
    \/ TextSvcAnalyzeCode
    \/ TextSvcGetCodeMetrics
    \/ TextSvcInjectBugs
    \/ TextRagAnalyzeCode
    \/ TextRagGetCodeMetrics
    \/ TextRagInjectBugs

SpecText == InitText /\ [][NextText]_vars

(***************************************************************************)
(* The index specification: the RAG functions on vector stores of up to    *)
(* MaxIndexed chunks, with a credential.  The call in progress also holds  *)
(* the locals of the retrieval.                                            *)
(***************************************************************************)
MaxIndexed == 6

IndexLlmOutcomes == {LlmReturns(<<"{", "}">>), LlmRaises("Exception")}

IndexCall(op, request, llm, result, step) ==
    Call(op, "rag", request, None, llm, [fn |-> result, resp |-> None]) @@ step

InitIndex ==
    /\ environ = JStr(<<"k2">>)
    /\ pydantic = "v2"
    /\ embedding_model_cache = None
    /\ vector_store_cache = None
    /\ embedding_model = initialize_vector_store_and_embeddings.embedding_model
    /\ vector_store = initialize_vector_store_and_embeddings.vector_store
    /\ cur = Idle

IndexLoadAndIndexCode ==
    /\ cur.op = "idle"
    /\ \E code_input \in {JList(<<JStr(CodeA)>>), JList(<<JStr(CodeB)>>),
                          JList(<<JStr(CodeB), JStr(CodeA)>>)} :
          LET out == load_and_index_code(code_input, embedding_model, vector_store)
          IN  /\ Len(out.vector_store.docs) <= MaxIndexed
              /\ cur' = Call("ingest", "rag", [code_input |-> code_input], None, NoLlm,
                             [fn |-> Returned(Str("loaded"), out.effects, NoText, NoText,
                                              NoText, NoText, FALSE),
                              resp |-> None])
              /\ vector_store' = out.vector_store
    /\ UNCHANGED <<environ, pydantic, embedding_model_cache, vector_store_cache,
                   embedding_model>>

IndexAnalyzeCode ==
    /\ cur.op = "idle"
    /\ \E query \in Queries, llm \in IndexLlmOutcomes :
          cur' = IndexCall("analyze", [query |-> query], llm,
                           Rag_analyze_code(query, embedding_model, vector_store,
                                            RagApiKey(environ), llm),
                           RetrievalStep(query, embedding_model, vector_store))
    /\ UNCHANGED <<environ, pydantic, embedding_model_cache, vector_store_cache,
                   embedding_model, vector_store>>

IndexGetCodeMetrics ==
    /\ cur.op = "idle"
    /\ \E query \in Queries, llm \in IndexLlmOutcomes :
          cur' = IndexCall("metrics", [query |-> query], llm,
                           Rag_get_code_metrics(query, embedding_model, vector_store,
                                                RagApiKey(environ), llm),
                           RetrievalStep(query, embedding_model, vector_store))
    /\ UNCHANGED <<environ, pydantic, embedding_model_cache, vector_store_cache,
                   embedding_model, vector_store>>

IndexInjectBugs ==
    /\ cur.op = "idle"
    /\ \E query \in Queries, llm \in IndexLlmOutcomes :
          cur' = IndexCall("inject", [query |-> query], llm,
                           Rag_inject_bugs(query, embedding_model, vector_store,
                                           <<"SQL">>, 5, 2, RagApiKey(environ), llm),
                           RetrievalStep(query, embedding_model, vector_store))
    /\ UNCHANGED <<environ, pydantic, embedding_model_cache, vector_store_cache,
                   embedding_model, vector_store>>

NextIndex ==
    \/ IndexLoadAndIndexCode
    \/ IndexAnalyzeCode
    \/ IndexGetCodeMetrics
    \/ IndexInjectBugs
    \/ CodeInputEndpoint
    \/ Return

SpecIndex == InitIndex /\ [][NextIndex]_vars

(***************************************************************************)
(* The chunk specification: load_and_index_code on an empty vector store   *)
(* with one document, short or longer than chunk_size, with and without    *)
(* separators in it                                                        *)
(***************************************************************************)
Letters == <<"a", "b", "c", "d", "e", "f", "g">>

\* n symbols that are no separators
Run(n) == [i \in 1..n |-> Letters[(i % 7) + 1]]

RunLengths == {0, 300, 700, 999, 1000, 1001, 1300}

Documents ==
    {<<SP>>, <<SP, "a">>, <<"a", LF>>, CodeA, Run(1800), Run(1801), Run(2600)} \cup
    {Run(n) \o sep \o Run(k) :
        n \in RunLengths, k \in RunLengths, sep \in {<<LF, LF>>, <<LF>>, <<SP>>}} \cup
    {Run(700) \o <<LF, LF>> \o Run(n) \o <<SP>> \o Run(k) \o <<LF>> \o Run(300) :
        n \in {300, 700}, k \in {300, 1000}}

InitChunk ==
    /\ environ = JStr(<<"k2">>)
    /\ pydantic = "v2"
    /\ embedding_model_cache = None
    /\ vector_store_cache = None
    /\ embedding_model = initialize_vector_store_and_embeddings.embedding_model
    /\ vector_store = initialize_vector_store_and_embeddings.vector_store
    /\ \E document \in Documents : cur = [op |-> "document", document |-> document]

ChunkLoadAndIndexCode ==
    /\ cur.op = "document"
    /\ LET code_input == JList(<<JStr(cur.document)>>)
           out == load_and_index_code(code_input, embedding_model, vector_store)
       IN  /\ cur' = Call("ingest", "rag", [code_input |-> code_input], None, NoLlm,
                          [fn |-> Returned(Str("loaded"), out.effects, NoText, NoText,
                                           NoText, NoText, FALSE),
                           resp |-> None])
           /\ vector_store' = out.vector_store
    /\ UNCHANGED <<environ, pydantic, embedding_model_cache, vector_store_cache,
                   embedding_model>>

NextChunk == ChunkLoadAndIndexCode

SpecChunk == InitChunk /\ [][NextChunk]_vars

(***************************************************************************)
(* The key specification: the two functions that choose the credential,    *)
(* get_api_key of app/services.py on the key of a request and load_api_key *)
(* of app/RAG/config.py with the module global API_KEY made from it, under *)
(* the values the environment variable API_KEY can have.                   *)
(***************************************************************************)
KeyTexts ==
    {<<>>, <<SP>>, <<LF, SP>>, <<"string">>, <<"STRING">>, <<SP, "String", SP>>,
     <<"none">>, <<"None", LF>>, <<"null">>, <<"NULL">>, <<"k1">>, <<SP, "k1", SP>>,
     <<"string", "k1">>, <<"k1", SP, "null">>}

UserApiKeys == {None} \cup {JStr(t) : t \in KeyTexts}

KeyEnvirons ==
    {None} \cup
    {JStr(t) : t \in {<<>>, <<SP>>, <<"k2">>, <<SP, "k2", LF>>, <<"none">>,
                      <<DQ, "k2", DQ>>, <<SQ, "k2", SQ>>, <<DQ, "k2">>, <<DQ, DQ>>, <<SQ>>,
                      <<SQ, DQ, "k2", DQ, SQ>>, <<DQ, SQ, "k2", SQ, DQ>>}}

InitKey ==
    /\ environ \in KeyEnvirons
    /\ pydantic = "v2"
    /\ embedding_model_cache = None
    /\ vector_store_cache = None
    /\ embedding_model = initialize_vector_store_and_embeddings.embedding_model
    /\ vector_store = initialize_vector_store_and_embeddings.vector_store
    /\ cur = Idle

\* get_api_key(user_api_key) with DEFAULT_API_KEY = os.getenv("API_KEY")
GetApiKey ==
    /\ cur.op = "idle"
    /\ \E user_api_key \in UserApiKeys :
          cur' = [op |-> "get_api_key", user_api_key |-> user_api_key,
                  out |-> get_api_key(user_api_key, SvcDefaultApiKey(environ))]
    /\ UNCHANGED <<environ, pydantic, embedding_model_cache, vector_store_cache,
                   embedding_model, vector_store>>

\* the import of app/RAG/config.py: load_api_key() and the global API_KEY
LoadApiKey ==
    /\ cur.op = "idle"
    /\ cur' = [op |-> "load_api_key", out |-> load_api_key(environ),
               API_KEY |-> RagApiKey(environ)]
    /\ UNCHANGED <<environ, pydantic, embedding_model_cache, vector_store_cache,
                   embedding_model, vector_store>>

NextKey ==
    \/ GetApiKey
    \/ LoadApiKey
    \/ Return

SpecKey == InitKey /\ [][NextKey]_vars

(***************************************************************************)
(* The request specification: code-input requests served at the same time. *)
(* code_input_endpoint is a plain def, which the server runs on the        *)
(* threads of a pool, so the lines of get_vector_store_and_embeddings of   *)
(* one request interleave with those of another; each read and each write  *)
(* of a module global is one step.  The caches hold references: the n-th   *)
(* call of initialize_vector_store_and_embeddings makes the n-th model and *)
(* the n-th Chroma object.  Whether two in-memory Chroma objects of one    *)
(* process have one collection or one each is up to the chromadb of the    *)
(* build: cur.chroma is "shared" or "separate".  cur.collections are the   *)
(* collections there are, cur.threads the requests in progress.            *)
(***************************************************************************)
MaxRequests == 2

Threads == {1, 2}

\* the snippet the requests of a thread load
SnippetOf(t) == IF t = 1 THEN CodeA ELSE CodeB

Ref(n) == [ref |-> n]

\* the collection of the n-th Chroma object
CollectionOf(chroma, n) == IF chroma = "shared" THEN 1 ELSE n

\* Chroma(embedding_function=embedding_model): the collections after it
Chroma(chroma, collections) ==
    IF chroma = "shared" /\ collections # <<>> THEN collections
    ELSE Append(collections, initialize_vector_store_and_embeddings.vector_store)

InitRace ==
    /\ environ = JStr(<<"k2">>)
    /\ pydantic = "v2"
    /\ embedding_model_cache = None
    /\ vector_store_cache = None
    /\ embedding_model = initialize_vector_store_and_embeddings.embedding_model
    /\ vector_store = initialize_vector_store_and_embeddings.vector_store
    /\ \E chroma \in {"shared", "separate"} :
          cur = [op |-> "requests", chroma |-> chroma, created |-> 0,
                 collections |-> <<>>,
                 threads |-> [t \in Threads |->
                                 [pc |-> "idle", requests |-> 0, new |-> 0,
                                  embedding_model |-> None, vector_store |-> None,
                                  reported |-> 0, resp |-> None]]]

At(t, pc) == cur.op = "requests" /\ cur.threads[t].pc = pc

Goto(t, pc) == [cur EXCEPT !.threads[t].pc = pc]

\* a request arrives: code_input_endpoint starts on a thread
RaceRequest(t) ==
    /\ At(t, "idle")
    /\ cur.threads[t].requests < MaxRequests
    /\ cur' = [cur EXCEPT !.threads[t].pc = "check_store",
                          !.threads[t].requests = @ + 1,
                          !.threads[t].embedding_model = None,
                          !.threads[t].vector_store = None,
                          !.threads[t].resp = None]
    /\ UNCHANGED <<environ, pydantic, embedding_model_cache, vector_store_cache,
                   embedding_model, vector_store>>

\* if _vector_store_cache is None
RaceCheckStore(t) ==
    /\ At(t, "check_store")
    /\ cur' = Goto(t, IF vector_store_cache = None THEN "initialize" ELSE "check_model")
    /\ UNCHANGED <<environ, pydantic, embedding_model_cache, vector_store_cache,
                   embedding_model, vector_store>>

\* or _embedding_model_cache is None
RaceCheckModel(t) ==
    /\ At(t, "check_model")
    /\ cur' = Goto(t, IF embedding_model_cache = None THEN "initialize" ELSE "return_model")
    /\ UNCHANGED <<environ, pydantic, embedding_model_cache, vector_store_cache,
                   embedding_model, vector_store>>

\* initialize_vector_store_and_embeddings()
RaceInitialize(t) ==
    /\ At(t, "initialize")
    /\ cur' = [cur EXCEPT !.threads[t].pc = "set_model",
                          !.threads[t].new = cur.created + 1,
                          !.created = @ + 1,
                          !.collections = Chroma(cur.chroma, @)]
    /\ UNCHANGED <<environ, pydantic, embedding_model_cache, vector_store_cache,
                   embedding_model, vector_store>>

\* _embedding_model_cache, ... = the first of the pair
RaceSetModel(t) ==
    /\ At(t, "set_model")
    /\ embedding_model_cache' = Ref(cur.threads[t].new)
    /\ cur' = Goto(t, "set_store")
    /\ UNCHANGED <<environ, pydantic, vector_store_cache, embedding_model, vector_store>>

\* ..., _vector_store_cache = the second of the pair
RaceSetStore(t) ==
    /\ At(t, "set_store")
    /\ vector_store_cache' = Ref(cur.threads[t].new)
    /\ cur' = Goto(t, "return_model")
    /\ UNCHANGED <<environ, pydantic, embedding_model_cache, embedding_model,
                   vector_store>>

\* return _embedding_model_cache, ...
RaceReturnModel(t) ==
    /\ At(t, "return_model")
    /\ cur' = [cur EXCEPT !.threads[t].pc = "return_store",
                          !.threads[t].embedding_model = embedding_model_cache]
    /\ UNCHANGED <<environ, pydantic, embedding_model_cache, vector_store_cache,
                   embedding_model, vector_store>>

\* return ..., _vector_store_cache
RaceReturnStore(t) ==
    /\ At(t, "return_store")
    /\ cur' = [cur EXCEPT !.threads[t].pc = "load",
                          !.threads[t].vector_store = vector_store_cache]
    /\ UNCHANGED <<environ, pydantic, embedding_model_cache, vector_store_cache,
                   embedding_model, vector_store>>

\* load_and_index_code(request.code_snippets, embedding_model, vector_store) and
\* the response
RaceLoad(t) ==
    /\ At(t, "load")
    /\ LET c == CollectionOf(cur.chroma, cur.threads[t].vector_store.ref)
           loaded == load_and_index_code(JList(<<JStr(SnippetOf(t))>>), MiniLM,
                                         cur.collections[c])
       IN  cur' = [cur EXCEPT !.threads[t].pc = "idle",
                              !.threads[t].reported = @ + 1,
                              !.threads[t].resp = CodeInputResponse("success", "loaded", 1),
                              !.collections[c] = loaded.vector_store]
    /\ UNCHANGED <<environ, pydantic, embedding_model_cache, vector_store_cache,
                   embedding_model, vector_store>>

NextRace ==
    \E t \in Threads :
        \/ RaceRequest(t)
        \/ RaceCheckStore(t)
        \/ RaceCheckModel(t)
        \/ RaceInitialize(t)
        \/ RaceSetModel(t)
        \/ RaceSetStore(t)
        \/ RaceReturnModel(t)
        \/ RaceReturnStore(t)
        \/ RaceLoad(t)

SpecRace == InitRace /\ [][NextRace]_vars

(***************************************************************************)
(* The vocabulary of the properties                                        *)
(***************************************************************************)
\* the operations that take a model text
Operations == {"analyze", "metrics", "inject"}

\* the call in progress reached the completion client, which returned a text
GotText ==
    /\ cur.op \in Operations
    /\ cur.llm.exc = "none"
    /\ cur.fn # NotCalled
    /\ "llm" \in Range(cur.fn.effects)

\* the lines of a text: the positions of its first and last line break
LineBreaks(t) == {i \in DOMAIN t : t[i] = LF}
FirstBreak(t) == CHOOSE i \in LineBreaks(t) : \A j \in LineBreaks(t) : i <= j
LastBreak(t) == CHOOSE i \in LineBreaks(t) : \A j \in LineBreaks(t) : j <= i
FirstLine(t) == SubSeq(t, 1, FirstBreak(t) - 1)
LastLine(t) == SubSeq(t, LastBreak(t) + 1, Len(t))

\* a text that begins with a fence line (three backticks and the json tag) and
\* ends with a fence line (three backticks)
Fenced(t) ==
    /\ LineBreaks(t) # {}
    /\ FirstLine(t) = <<BT, BT, BT, "json">>
    /\ LastLine(t) = <<BT, BT, BT>>

\* a fenced text without its first and its last line
Between(t) ==
    IF FirstBreak(t) = LastBreak(t) THEN <<>>
    ELSE SubSeq(t, FirstBreak(t) + 1, LastBreak(t) - 1)

\* the text the normalisation is to hand to the parser
Unfenced(t) == IF Fenced(t) THEN Between(t) ELSE t

\* a model text that is no JSON, fenced or not
Malformed(t) == ~JsonLoads(Unfenced(t)).ok

\* Python values written out
Dict1(k, val) == [t |-> "dict", d |-> (<<k>> :> val)]
Dict2(k1, v1, k2, v2) == [t |-> "dict", d |-> (<<k1>> :> v1) @@ (<<k2>> :> v2)]
NoItems == [t |-> "list", a |-> <<>>]

\* the default of each operation, given the code it was sent
DefaultOf(op, sent) ==
    CASE op = "analyze" -> Dict1("issues", NoItems)
      [] op = "metrics" ->
            Dict2("summary_metrics", [t |-> "dict", d |-> <<>>],
                  "issue_distribution", [t |-> "dict", d |-> <<>>])
      [] op = "inject" ->
            Dict2("buggy_code", [t |-> "str", s |-> sent], "bugs_injected", NoItems)

(***************************************************************************)
(* C1: for every model text that is no JSON (truncated JSON, prose, a      *)
(* fenced block around no JSON), each of the six operations returns and    *)
(* does not raise, and what it returns is the default of its shape: for    *)
(* the issues shape a dict with the one key issues and the empty list.     *)
(***************************************************************************)
C1_MalformedGivesDefault ==
    (GotText /\ Malformed(cur.llm.text)) =>
        /\ cur.fn.exc = "none"
        /\ cur.fn.val = DefaultOf(cur.op, cur.fn.sent)
        /\ (cur.op = "analyze" => cur.fn.val = Dict1("issues", NoItems))

\* analyze_code has returned the default for a truncated JSON text
C1_Witness ==
    /\ GotText /\ cur.op = "analyze" /\ cur.impl = "rag"
    /\ cur.llm.text \in Truncations(IssuesDoc(<<IssuePartial>>))
    /\ Len(cur.llm.text) > 5
    /\ Malformed(cur.llm.text)
    /\ cur.fn.val = Dict1("issues", NoItems)

(***************************************************************************)
(* C2: whatever the model text (no JSON, or JSON of any shape: null, a     *)
(* list, a number, an object with keys missing), the value an operation    *)
(* returns is well-formed for its shape: it is not null and it has every   *)
(* field of its schema, none of them null.                                 *)
(***************************************************************************)
HasFields(v, keys) ==
    /\ v.t = "dict"
    /\ \A k \in keys : <<k>> \in DOMAIN v.d /\ v.d[<<k>>].t # "null"

AllHaveFields(v, keys) ==
    /\ v.t = "list"
    /\ \A i \in DOMAIN v.a : HasFields(v.a[i], keys)

WellFormed(op, val) ==
    CASE op = "analyze" ->
            /\ HasFields(val, {"issues"})
            /\ AllHaveFields(val.d[<<"issues">>],
                             {"title", "type", "severity", "description", "suggestedFix"})
      [] op = "metrics" ->
            /\ HasFields(val, {"summary_metrics", "issue_distribution"})
            /\ HasFields(val.d[<<"summary_metrics">>],
                         {"code_quality_score", "security_rating", "bug_density",
                          "critical_issue_count"})
            /\ HasFields(val.d[<<"issue_distribution">>],
                         {"security_vulnerabilities", "code_smells", "best_practices",
                          "performance_issues"})
      [] op = "inject" ->
            /\ HasFields(val, {"buggy_code", "bugs_injected"})
            /\ AllHaveFields(val.d[<<"bugs_injected">>],
                             {"type", "line_number", "description"})

C2_Counterexample ==
    (cur.op \in Operations /\ cur.fn # NotCalled /\ cur.fn.exc = "none") =>
        WellFormed(cur.op, cur.fn.val)

(***************************************************************************)
(* C3: an operation given the model text J inside a json fence returns     *)
(* what it returns given J alone.  As stated, for every J; as amended, for *)
(* every J that is not itself a json fence around JSON.  The fenced        *)
(* object with the empty issues list gives that object.                    *)
(***************************************************************************)
\* the operation of the call in progress, again, on another model text
Again(text) ==
    CASE cur.impl = "svc" /\ cur.op = "analyze" ->
            Svc_analyze_code(cur.request.code, None, SvcDefaultApiKey(environ),
                             LlmReturns(text))
      [] cur.impl = "svc" /\ cur.op = "metrics" ->
            Svc_get_code_metrics(cur.request.code, None, SvcDefaultApiKey(environ),
                                 LlmReturns(text))
      [] cur.impl = "svc" /\ cur.op = "inject" ->
            Svc_inject_bugs(cur.request.code, <<"SQL">>, 5, 2, None,
                            SvcDefaultApiKey(environ), LlmReturns(text))
      [] cur.impl = "rag" /\ cur.op = "analyze" ->
            Rag_analyze_code(cur.request.query, embedding_model, vector_store,
                             RagApiKey(environ), LlmReturns(text))
      [] cur.impl = "rag" /\ cur.op = "metrics" ->
            Rag_get_code_metrics(cur.request.query, embedding_model, vector_store,
                                 RagApiKey(environ), LlmReturns(text))
      [] cur.impl = "rag" /\ cur.op = "inject" ->
            Rag_inject_bugs(cur.request.query, embedding_model, vector_store,
                            <<"SQL">>, 5, 2, RagApiKey(environ), LlmReturns(text))

SameResult(a, b) == a.exc = b.exc /\ a.val = b.val

\* J inside a json fence
InJsonFence(J) == <<BT, BT, BT, "json", LF>> \o J \o <<LF, BT, BT, BT>>

\* a json fence around JSON
IsFencedJson(t) ==
    /\ Len(t) >= 9
    /\ SubSeq(t, 1, 5) = <<BT, BT, BT, "json", LF>>
    /\ SubSeq(t, Len(t) - 3, Len(t)) = <<LF, BT, BT, BT>>
    /\ JsonLoads(SubSeq(t, 6, Len(t) - 4)).ok

C3_Counterexample ==
    GotText => SameResult(Again(InJsonFence(cur.llm.text)), cur.fn)

C3_FenceIsTransparent ==
    /\ (GotText /\ ~IsFencedJson(cur.llm.text)) =>
            SameResult(Again(InJsonFence(cur.llm.text)), cur.fn)
    /\ (GotText /\ cur.llm.text = InJsonFence(<<"{", DQ, "issues", DQ, ":", "[", "]", "}">>)) =>
            cur.fn.val = Dict1("issues", NoItems)

\* an operation has returned the parsed object for a JSON text, and returns it
\* for the fenced text too
C3_Witness ==
    /\ GotText /\ cur.op = "analyze" /\ cur.impl = "svc"
    /\ cur.llm.text = IssuesDoc(<<IssueFull>>)
    /\ cur.fn.decoded
    /\ Again(InJsonFence(cur.llm.text)).decoded
    /\ Len(cur.fn.val.d[<<"issues">>].a) = 1

(***************************************************************************)
(* C4: when the model text begins with a fence line and ends with a fence  *)
(* line, the text handed to json.loads is the model text without its first *)
(* line and without its last line, the lines between them unchanged; any   *)
(* other model text is handed to json.loads unchanged.                     *)
(***************************************************************************)
C4_Counterexample ==
    GotText => cur.fn.parsed = Unfenced(cur.llm.text)

(***************************************************************************)
(* C5: when the model text of a metrics call is no JSON, the result is the *)
(* all-zero report: the four summary metrics and the four issue counts are *)
(* all present and all 0.                                                  *)
(***************************************************************************)
Zero == [t |-> "num", n |-> 0]

AllZeroReport ==
    Dict2("summary_metrics",
          [t |-> "dict",
           d |-> (<<"code_quality_score">> :> Zero) @@ (<<"security_rating">> :> Zero) @@
                 (<<"bug_density">> :> Zero) @@ (<<"critical_issue_count">> :> Zero)],
          "issue_distribution",
          [t |-> "dict",
           d |-> (<<"security_vulnerabilities">> :> Zero) @@ (<<"code_smells">> :> Zero) @@
                 (<<"best_practices">> :> Zero) @@ (<<"performance_issues">> :> Zero)])

C5_Counterexample ==
    (GotText /\ cur.op = "metrics" /\ Malformed(cur.llm.text)) =>
        cur.fn.val = AllZeroReport

(***************************************************************************)
(* C6: when the model text of an inject_bugs call is no JSON, the result   *)
(* has buggy_code equal to the code that was sent for bug injection (the   *)
(* code of the request, else the stored code, for the endpoint; the        *)
(* retrieved chunks for the RAG function) and bugs_injected empty.         *)
(***************************************************************************)
\* the code the call in progress has for bug injection
InputCode ==
    CASE cur.impl = "api" ->
            IF cur.request.code.t = "str" /\ cur.request.code.s # <<>>
            THEN cur.request.code.s ELSE cur.stored.s
      [] cur.impl = "rag" ->
            CombinedCode(similarity_search_by_vector(
                             vector_store, embed_query(embedding_model, cur.request.query), K))

C6_ParseFailureKeepsCode ==
    (GotText /\ cur.op = "inject" /\ Malformed(cur.llm.text)) =>
        /\ cur.fn.exc = "none"
        /\ cur.fn.val = Dict2("buggy_code", [t |-> "str", s |-> InputCode],
                              "bugs_injected", NoItems)
        /\ cur.impl = "api" =>
              /\ cur.resp.status = "success"
              /\ cur.resp.buggy_code = [t |-> "str", s |-> InputCode]
              /\ cur.resp.bugs_injected = <<>>

\* the endpoint has answered a text that is no JSON with the stored code
C6_Witness ==
    /\ GotText /\ cur.op = "inject" /\ cur.impl = "api"
    /\ cur.llm.text = <<"{", "]">>
    /\ cur.request.code = [t |-> "str", s |-> <<>>]
    /\ cur.resp.status = "success"
    /\ cur.resp.buggy_code = [t |-> "str", s |-> CodeB]

(***************************************************************************)
(* C7: when the model text is a JSON object in which fields of an issue,   *)
(* of the metrics or of an injected bug are missing, or extra fields are   *)
(* present, and the fields present have the types of the schema, the       *)
(* endpoint does not reject the result: its response is a success, each    *)
(* absent string field is the empty string, each absent numeric field is   *)
(* 0, and each field present keeps its value.  As stated, the absent       *)
(* lineNumber of an issue is 0 too; as amended, it is null.                *)
(***************************************************************************)
Present(item, k) == <<k>> \in DOMAIN item.d
FieldOr(item, k, default) == IF Present(item, k) THEN item.d[<<k>>] ELSE default
Blank == [t |-> "str", s |-> <<>>]
Null == [t |-> "null"]

TypedIfPresent(item, strs, nums) ==
    /\ item.t = "dict"
    /\ \A k \in strs : Present(item, k) => item.d[<<k>>].t = "str"
    /\ \A k \in nums : Present(item, k) => item.d[<<k>>].t = "num"

ListOfTyped(v, strs, nums) ==
    /\ v.t = "list"
    /\ \A i \in DOMAIN v.a : TypedIfPresent(v.a[i], strs, nums)

IssueStrs == {"title", "type", "severity", "description", "suggestedFix"}
SummaryNums == {"code_quality_score", "security_rating", "bug_density", "critical_issue_count"}
DistributionNums ==
    {"security_vulnerabilities", "code_smells", "best_practices", "performance_issues"}

\* the result of the call in progress is of its shape but for missing and extra fields
PartialResult ==
    /\ GotText /\ cur.impl = "api" /\ cur.fn.decoded
    /\ cur.fn.val.t = "dict"
    /\ CASE cur.op = "analyze" ->
              ListOfTyped(FieldOr(cur.fn.val, "issues", NoItems), IssueStrs, {"lineNumber"})
         [] cur.op = "metrics" ->
              /\ TypedIfPresent(FieldOr(cur.fn.val, "summary_metrics", [t |-> "dict", d |-> <<>>]),
                                {}, SummaryNums)
              /\ TypedIfPresent(FieldOr(cur.fn.val, "issue_distribution", [t |-> "dict", d |-> <<>>]),
                                {}, DistributionNums)
         [] cur.op = "inject" ->
              /\ TypedIfPresent(cur.fn.val, {"buggy_code"}, {})
              /\ ListOfTyped(FieldOr(cur.fn.val, "bugs_injected", NoItems),
                             {"type", "description"}, {"line_number"})

ExpectedIssue(item, noLine) ==
    [title |-> FieldOr(item, "title", Blank), type |-> FieldOr(item, "type", Blank),
     severity |-> FieldOr(item, "severity", Blank),
     lineNumber |-> FieldOr(item, "lineNumber", noLine),
     description |-> FieldOr(item, "description", Blank),
     suggestedFix |-> FieldOr(item, "suggestedFix", Blank)]

ExpectedBug(item) ==
    [type |-> FieldOr(item, "type", Blank), line_number |-> FieldOr(item, "line_number", Zero),
     description |-> FieldOr(item, "description", Blank)]

\* the response with the per-field defaults, the absent lineNumber being noLine
ExpectedResponse(noLine) ==
    CASE cur.op = "analyze" ->
            LET items == FieldOr(cur.fn.val, "issues", NoItems).a
            IN  /\ cur.resp.status = "success"
                /\ cur.resp.total_issues = Len(items)
                /\ cur.resp.issues = [i \in 1..Len(items) |-> ExpectedIssue(items[i], noLine)]
      [] cur.op = "metrics" ->
            LET sm == FieldOr(cur.fn.val, "summary_metrics", [t |-> "dict", d |-> <<>>])
                dist == FieldOr(cur.fn.val, "issue_distribution", [t |-> "dict", d |-> <<>>])
            IN  /\ cur.resp.status = "success"
                /\ cur.resp.summary_metrics = [k \in SummaryNums |-> FieldOr(sm, k, Zero)]
                /\ cur.resp.issue_distribution =
                       [k \in DistributionNums |-> FieldOr(dist, k, Zero)]
      [] cur.op = "inject" ->
            LET items == FieldOr(cur.fn.val, "bugs_injected", NoItems).a
            IN  /\ cur.resp.status = "success"
                /\ cur.resp.buggy_code = FieldOr(cur.fn.val, "buggy_code", Blank)
                /\ cur.resp.total_bugs_injected = Len(items)
                /\ cur.resp.bugs_injected = [i \in 1..Len(items) |-> ExpectedBug(items[i])]

Trimmed(s) ==
    LET keep == {i \in DOMAIN s : s[i] \notin {SP, LF}}
    IN  IF keep = {} THEN <<>>
        ELSE SubSeq(s, CHOOSE i \in keep : \A j \in keep : i <= j,
                       CHOOSE i \in keep : \A j \in keep : j <= i)

PlaceholderWords ==
    {<<w>> : w \in {"string", "String", "STRING", "none", "None", "NONE",
                     "null", "Null", "NULL"}}

Usable(v) == v.t = "str" /\ Trimmed(v.s) # <<>> /\ Trimmed(v.s) \notin PlaceholderWords

NoKey == <<"NoKey">>

\* the credential the call in progress is to use
ExpectedKey ==
    CASE cur.impl = "api" ->
            IF Usable(cur.request.api_key) THEN Trimmed(cur.request.api_key.s)
            ELSE IF environ.t = "str" /\ Trimmed(environ.s) # <<>> THEN Trimmed(environ.s)
            ELSE NoKey
      [] cur.impl = "rag" ->
            IF RagApiKey(environ).t = "str" /\ RagApiKey(environ).s # <<>>
            THEN RagApiKey(environ).s ELSE NoKey

InvalidRequest(call) ==
    \/ /\ call.op = "ingest" /\ call.impl = "api"
       /\ call.request.code_snippets.a = <<>>
    \/ /\ call.op = "inject" /\ call.impl = "api"
       /\ \/ call.request.severity_level < 1 \/ call.request.severity_level > 5
          \/ call.request.num_bugs < 1 \/ call.request.num_bugs > 10

C9_InvalidRejectedFirst ==
    [][InvalidRequest(cur') =>
          /\ cur'.resp.status = "422"
          /\ cur'.fn.effects = <<>>
          /\ UNCHANGED <<embedding_model_cache, vector_store_cache, embedding_model,
                         vector_store>>]_vars

\* an inject-bugs request with severity_level 6 has been rejected
C9_Witness ==
    /\ cur.op = "inject" /\ cur.impl = "api"
    /\ cur.request.severity_level = 6 /\ cur.request.num_bugs = 2
    /\ cur.request.code = [t |-> "str", s |-> CodeA]
    /\ cur.resp.status = "422"
    /\ cur.fn = NotCalled

(***************************************************************************)
(* C10: whatever the model text, the operation that received it completes  *)
(* without an error: the function does not raise and the endpoint answers  *)
(* with status success.                                                    *)
(***************************************************************************)
C10_Counterexample ==
    GotText =>
        /\ cur.fn.exc = "none"
        /\ cur.impl = "api" => cur.resp.status = "success"

(***************************************************************************)
(* C11: an analyze, metrics or inject_bugs call that has a credential and  *)
(* valid input calls the completion client exactly once.  When that call   *)
(* fails, the operation ends with the same failure (the function raises    *)
(* it, the endpoint answers with status error) and no second call is made; *)
(* when it returns a text, the operation answers from that text and from   *)
(* no earlier one.                                                         *)
(***************************************************************************)
\* the number of calls of the completion client in a sequence of effects
LlmCalls(effects) == Cardinality({i \in DOMAIN effects : effects[i] = "llm"})

\* the call in progress passed the input checks and has a credential
PassedChecks ==
    /\ cur.op \in Operations
    /\ cur.fn # NotCalled
    /\ ExpectedKey # NoKey

C11_OneCallNoRetry ==
    PassedChecks =>
        /\ LlmCalls(cur.fn.effects) = 1
        /\ cur.llm.exc # "none" =>
              /\ cur.fn.exc = cur.llm.exc
              /\ cur.impl = "api" => cur.resp.status = "error"
        /\ cur.llm.exc = "none" =>
              /\ cur.fn.exc = "none"
              /\ cur.fn.raw = cur.llm.text

\* the completion client has failed in a call of the analyze endpoint, which
\* answers with an error after the one call
C11_Witness ==
    /\ PassedChecks /\ cur.op = "analyze" /\ cur.impl = "api"
    /\ cur.llm = [exc |-> "Exception", text |-> <<>>]
    /\ cur.fn.exc = "Exception"
    /\ cur.fn.effects = <<"llm">>
    /\ cur.resp.status = "error"

(***************************************************************************)
(* C12: an analyze, metrics or inject_bugs call of the RAG implementation  *)
(* on a vector store with no chunk does not fail at the retrieval: the     *)
(* query is embedded, the search gives no chunk, and the completion client *)
(* is called with an empty context, so that the call fails only when the   *)
(* completion client does.                                                 *)
(***************************************************************************)
\* the call in progress is a retrieval-backed one on an empty vector store
OnEmptyIndex ==
    /\ cur.op \in Operations /\ cur.impl = "rag"
    /\ ExpectedKey # NoKey
    /\ Len(vector_store.docs) = 0

Retrieved == cur.op \in Operations /\ cur.impl = "rag" /\ cur.fn.effects # <<>>

\* how far a text is from the query: the symbols that only one of them has
Apart(text, query) ==
    LET a == {text[i] : i \in DOMAIN text}
        b == {query[i] : i \in DOMAIN query}
    IN  Cardinality((a \ b) \cup (b \ a))

\* how often a chunk is in a sequence of chunks
Copies(docs, doc) == Cardinality({i \in DOMAIN docs : docs[i] = doc})

Smaller(a, b) == IF a < b THEN a ELSE b

RankedTopFive(docs, query, stored) ==
    /\ Len(docs) = Smaller(Len(stored), 5)
    /\ \A i \in DOMAIN docs : Copies(docs, docs[i]) <= Copies(stored, docs[i])
    /\ \A i \in DOMAIN docs : \A j \in DOMAIN docs :
          i < j => Apart(docs[i].page_content, query) <= Apart(docs[j].page_content, query)
    /\ \A i \in DOMAIN docs : \A j \in DOMAIN stored :
          Copies(docs, stored[j]) < Copies(stored, stored[j]) =>
              Apart(docs[i].page_content, query) <= Apart(stored[j].page_content, query)
    /\ Len(stored) = 1 => docs[1] = stored[1]

Paired(model, store) ==
    /\ store.embedding_function = model
    /\ \A i \in DOMAIN store.docs : store.docs[i].embedding.model = model

C14_OneEmbeddingFunction ==
    /\ Paired(embedding_model, vector_store)
    /\ vector_store_cache # [t |-> "null"] => Paired(embedding_model_cache, vector_store_cache)
    /\ Retrieved =>
          \A i \in DOMAIN vector_store.docs :
              vector_store.docs[i].embedding.model = cur.query_embedding.model

\* a query has been embedded for the search of a store of chunks of two ingests,
\* and the endpoint has cached a store with chunks too
C14_Witness ==
    /\ Retrieved /\ Len(vector_store.docs) = 3
    /\ cur.query_embedding.model = [model_name |-> "all-MiniLM-L6-v2"]
    /\ vector_store_cache # [t |-> "null"]
    /\ Len(vector_store_cache.docs) = 2

(***************************************************************************)
(* C15: the vector stores only grow.  In every step each chunk of the      *)
(* store the RAG functions use, and of the store the code-input endpoint   *)
(* caches, stays where it is with its text and its embedding; and a step   *)
(* that starts an analyze, metrics or inject_bugs operation changes        *)
(* neither store.                                                          *)
(***************************************************************************)
\* the chunks of a vector store, none before the store exists
Chunks(store) == IF store = [t |-> "null"] THEN <<>> ELSE store.docs

\* every chunk of before is the chunk at the same place after
Extends(after, before) ==
    /\ Len(before) <= Len(after)
    /\ \A i \in DOMAIN before : after[i] = before[i]

C15_IndexAppendOnly ==
    [][/\ Extends(Chunks(vector_store'), Chunks(vector_store))
       /\ Extends(Chunks(vector_store_cache'), Chunks(vector_store_cache))
       /\ cur'.op \in Operations =>
             /\ vector_store' = vector_store
             /\ vector_store_cache' = vector_store_cache]_vars

\* an operation of the RAG implementation is in progress on a store that holds
\* the chunks of two ingests
C15_Witness ==
    /\ cur.op = "inject" /\ cur.impl = "rag" /\ cur.fn.effects # <<>>
    /\ Len(vector_store.docs) = 2
    /\ vector_store.docs[1].page_content = CodeA
    /\ vector_store.docs[2].page_content = <<"def", SP, "loaded">>
    /\ Chunks(vector_store_cache) # <<>>

(***************************************************************************)
(* C16: the chunks of a document are windows of the document: each has at  *)
(* most chunk_size (1000) symbols, the first starts at the start of the    *)
(* document and each next one chunk_size - chunk_overlap (800) symbols     *)
(* after the one before, so that a chunk that is followed by another has   *)
(* chunk_size symbols and shares its last chunk_overlap (200) symbols with *)
(* the next.                                                               *)
(***************************************************************************)
\* a document has been loaded into an empty vector store
Chunked == cur.op = "ingest" /\ cur.impl = "rag" /\ Len(cur.request.code_input.a) = 1

\* the document, and the text of its chunks in the order they were stored
TheDocument == cur.request.code_input.a[1].s
TheChunks == [i \in 1..Len(vector_store.docs) |-> vector_store.docs[i].page_content]

Stride == chunk_size - chunk_overlap

\* chunk i of chunks is the window of document that starts Stride * (i - 1)
\* symbols into it
IsWindow(document, chunks, i) ==
    /\ Len(chunks[i]) <= chunk_size
    /\ Stride * (i - 1) + Len(chunks[i]) <= Len(document)
    /\ chunks[i] = SubSeq(document, Stride * (i - 1) + 1, Stride * (i - 1) + Len(chunks[i]))
    /\ i < Len(chunks) => Len(chunks[i]) = chunk_size

C16_Counterexample ==
    Chunked => \A i \in DOMAIN TheChunks : IsWindow(TheDocument, TheChunks, i)

(***************************************************************************)
(* C17: the chunks of a document, put together in their order with what    *)
(* two adjacent chunks share (the longest end of the one, of at most       *)
(* chunk_overlap symbols, that is the start of the next) taken once, are   *)
(* the document.                                                           *)
(***************************************************************************)
\* the number of symbols at the end of a chunk that the next chunk starts with
SharedWith(chunk, next) ==
    LET most == Smaller(chunk_overlap, Smaller(Len(chunk), Len(next)))
    IN  CHOOSE n \in 0..most :
            /\ SubSeq(chunk, Len(chunk) - n + 1, Len(chunk)) = SubSeq(next, 1, n)
            /\ \A k \in (n + 1)..most :
                  SubSeq(chunk, Len(chunk) - k + 1, Len(chunk)) # SubSeq(next, 1, k)

RECURSIVE PutTogether(_, _)
PutTogether(chunks, i) ==
    IF i > Len(chunks) THEN <<>>
    ELSE IF i = 1 THEN chunks[1] \o PutTogether(chunks, 2)
    ELSE SubSeq(chunks[i], SharedWith(chunks[i - 1], chunks[i]) + 1, Len(chunks[i]))
         \o PutTogether(chunks, i + 1)

C17_Counterexample == Chunked => PutTogether(TheChunks, 1) = TheDocument

(***************************************************************************)
(* C18: a request of the analyze-code, code-metrics or inject-bugs         *)
(* endpoint that carries no code is answered from the code loaded through  *)
(* /code-input: when snippets were loaded, the code given to the AI        *)
(* service is a loaded snippet (or the loaded snippets joined); when none  *)
(* was loaded, the response has status error and the AI service is not     *)
(* called.                                                                 *)
(***************************************************************************)
\* the call in progress is a valid request of an analysis endpoint with no code
NoCodeInRequest ==
    /\ cur.op \in Operations /\ cur.impl = "api"
    /\ ~InvalidRequest(cur)
    /\ ~(cur.request.code.t = "str" /\ cur.request.code.s # <<>>)

\* the texts loaded through /code-input, and all of them joined
LoadedCode ==
    LET loaded == [i \in DOMAIN Chunks(vector_store_cache) |->
                      Chunks(vector_store_cache)[i].page_content]
    IN  {loaded[i] : i \in DOMAIN loaded} \cup {Join(<<LF>>, loaded), Join(<<LF, LF>>, loaded)}

C18_Counterexample ==
    NoCodeInRequest =>
        IF Chunks(vector_store_cache) = <<>>
        THEN /\ cur.resp.status = "error"
             /\ LlmCalls(cur.fn.effects) = 0
        ELSE ExpectedKey # NoKey => cur.fn.sent \in LoadedCode

(***************************************************************************)
(* C19: in every response of the code-metrics endpoint code_quality_score  *)
(* and security_rating are integers from 0 to 100, and bug_density,        *)
(* critical_issue_count and the four counts of issue_distribution are      *)
(* integers that are not negative.                                         *)
(***************************************************************************)
Within(v, least, most) == v.t = "num" /\ v.n >= least /\ v.n <= most
NotNegative(v) == v.t = "num" /\ v.n >= 0

C19_Counterexample ==
    (cur.op = "metrics" /\ cur.impl = "api") =>
        /\ Within(cur.resp.summary_metrics.code_quality_score, 0, 100)
        /\ Within(cur.resp.summary_metrics.security_rating, 0, 100)
        /\ NotNegative(cur.resp.summary_metrics.bug_density)
        /\ NotNegative(cur.resp.summary_metrics.critical_issue_count)
        /\ \A k \in DistributionNums : NotNegative(cur.resp.issue_distribution[k])

(***************************************************************************)
(* C20: the counts of the responses agree with their lists: in every       *)
(* response of the inject-bugs endpoint total_bugs_injected is the length  *)
(* of bugs_injected, and in every response of the analyze-code endpoint    *)
(* total_issues is the length of issues.  When the model text of an        *)
(* inject_bugs call is unusable, that is, no JSON, the call does not fail: *)
(* its result, and the response of the endpoint, has the code that was to  *)
(* get the bugs as buggy_code and an empty list of bugs, counted as 0.     *)
(***************************************************************************)
\* the call in progress has a response of its endpoint, not a rejection
Answered(op) == cur.op = op /\ cur.impl = "api" /\ cur.resp.status \in {"success", "error"}

BlankLine == <<"LF", "LF">>

\* the texts of docs from the i-th on, a blank line between two of them
RECURSIVE TextsFrom(_, _)
TextsFrom(docs, i) ==
    IF i > Len(docs) THEN <<>>
    ELSE IF i = Len(docs) THEN docs[i].page_content
    ELSE docs[i].page_content \o BlankLine \o TextsFrom(docs, i + 1)

C21_ContextIsRankedChunks ==
    \A op \in Operations :
        (Retrieved /\ cur.op = op) => cur.fn.sent = TextsFrom(cur.relevant_docs, 1)

\* inject_bugs retrieves two different chunks, the one stored last ranked
\* first: the context has the two texts in the ranked order
C21_Witness ==
    /\ Retrieved /\ cur.op = "inject"
    /\ Len(vector_store.docs) = 2
    /\ vector_store.docs[1].page_content = <<"def", "SP", "f">>
    /\ Len(cur.relevant_docs) = 2
    /\ cur.relevant_docs[1] = vector_store.docs[2]
    /\ cur.relevant_docs[2] = vector_store.docs[1]
    /\ cur.fn.sent = <<"import", "SP", "os", "LF", "LF", "def", "SP", "f">>

(***************************************************************************)
(* C22: get_api_key takes the key of the caller as absent when it is       *)
(* empty, white space only, or, trimmed and whatever the case of its       *)
(* letters, one of the words string, none and null.  It then returns the   *)
(* default key trimmed if there is one that is not blank, and raises       *)
(* ValueError otherwise.  Any other key of the caller is returned trimmed, *)
(* whatever the default.                                                   *)
(***************************************************************************)
GotApiKey == cur.op = "get_api_key"

HasDefault == environ.t = "str" /\ Trimmed(environ.s) # <<>>

C22_CallerKeyOrDefault ==
    GotApiKey =>
        IF Usable(cur.user_api_key)
        THEN cur.out.ok /\ cur.out.key = Trimmed(cur.user_api_key.s)
        ELSE IF HasDefault
        THEN cur.out.ok /\ cur.out.key = Trimmed(environ.s)
        ELSE ~cur.out.ok

\* the key of the caller is the word None with a line break after it: the
\* default is returned, trimmed
C22_Witness ==
    /\ GotApiKey
    /\ cur.user_api_key = [t |-> "str", s |-> <<"None", "LF">>]
    /\ environ = [t |-> "str", s |-> <<"SP", "k2", "LF">>]
    /\ cur.out.ok /\ cur.out.key = <<"k2">>

(***************************************************************************)
(* C27: load_api_key raises RuntimeError or returns a key that is not      *)
(* empty and has no quote characters around it, whatever the value of the  *)
(* environment variable API_KEY; and the module global API_KEY is None     *)
(* exactly when load_api_key raised.                                       *)
(***************************************************************************)
LoadedApiKey == cur.op = "load_api_key"

QuoteMarks == {"DQ", "SQ"}

InQuotes(key) == Len(key) >= 1 /\ key[1] \in QuoteMarks /\ key[Len(key)] = key[1]

C27_Counterexample ==
    LoadedApiKey =>
        /\ cur.out.ok => (cur.out.key # <<>> /\ ~InQuotes(cur.out.key))
        /\ (cur.API_KEY = [t |-> "null"]) <=> ~cur.out.ok

(***************************************************************************)
(* C23: load_and_index_code raises ValueError when code_input is neither   *)
(* the path of an existing directory nor a list, and the vector index is   *)
(* then exactly what it was before the call; when it succeeds on a list,   *)
(* every snippet of the list has at least one chunk of its own among the   *)
(* chunks added to the index.                                              *)
(***************************************************************************)
\* text is a list value, or the path of one of the directories there are
ListOrDirectory(v) == v.t = "list" \/ (v.t = "str" /\ v.s \in {<<"dir">>})

PartOf(chunk, text) ==
    \E i \in 0..(Len(text) - Len(chunk)) : SubSeq(text, i + 1, i + Len(chunk)) = chunk

\* each snippet has a chunk of its own among added, in the order of the snippets
EachContributes(snippets, added) ==
    \E f \in [DOMAIN snippets -> DOMAIN added] :
        /\ \A i \in DOMAIN snippets : \A j \in DOMAIN snippets : i < j => f[i] < f[j]
        /\ \A i \in DOMAIN snippets : PartOf(added[f[i]].page_content, snippets[i].s)

Added(after, before) == SubSeq(after, Len(before) + 1, Len(after))

C23_Counterexample ==
    [][(cur'.op = "ingest" /\ cur'.impl = "rag") =>
          IF ListOrDirectory(cur'.request.code_input)
          THEN /\ cur'.fn.exc = "none"
               /\ cur'.request.code_input.t = "list" =>
                     EachContributes(cur'.request.code_input.a,
                                     Added(vector_store'.docs, vector_store.docs))
          ELSE /\ cur'.fn.exc = "ValueError"
               /\ vector_store' = vector_store]_vars

(***************************************************************************)
(* C24: however the requests that are served at the same time interleave,  *)
(* including requests that arrive before the global index is initialised,  *)
(* get_vector_store_and_embeddings gives every caller the same pair of     *)
(* index and embedding model, and every chunk an ingest has reported as    *)
(* loaded is in the index a later retrieval searches, the cached one: no   *)
(* ingest is lost to a second initialisation.                              *)
(***************************************************************************)
Serving == cur.op = "requests"

\* the thread has been handed its pair
HasPair(t) == cur.threads[t].vector_store # [t |-> "null"]

SamePair(t, u) ==
    /\ cur.threads[t].vector_store = cur.threads[u].vector_store
    /\ cur.threads[t].embedding_model = cur.threads[u].embedding_model

\* the chunks of the index the cache refers to
CachedChunks ==
    IF vector_store_cache = [t |-> "null"] THEN <<>>
    ELSE cur.collections[IF cur.chroma = "shared" THEN 1 ELSE vector_store_cache.ref].docs

\* how often text is a chunk of docs
Holds(docs, text) == Cardinality({i \in DOMAIN docs : docs[i].page_content = text})

C24_Counterexample ==
    Serving =>
        /\ \A t \in {1, 2} : \A u \in {1, 2} : (HasPair(t) /\ HasPair(u)) => SamePair(t, u)
        /\ Holds(CachedChunks, <<"def", "SP", "f">>) >= cur.threads[1].reported
        /\ Holds(CachedChunks, <<"import", "SP", "os">>) >= cur.threads[2].reported

(***************************************************************************)
(* C25: the RAG functions and the functions of app/services.py normalise   *)
(* the model text in the same way.  For each of the three shapes and every *)
(* model text, the function of one implementation returns what the         *)
(* function of the other returns for the same model text when the code in  *)
(* its prompt is the same: the same text is handed to the parser, the same *)
(* value comes back, and the same default when the text does not parse.    *)
(***************************************************************************)
\* the function of app/services.py on the code
DirectOn(op, code, llm) ==
    CASE op = "analyze" -> Svc_analyze_code([t |-> "str", s |-> code], [t |-> "null"], environ, llm)
      [] op = "metrics" -> Svc_get_code_metrics([t |-> "str", s |-> code], [t |-> "null"], environ, llm)
      [] op = "inject" ->
            Svc_inject_bugs([t |-> "str", s |-> code], <<"SQL">>, 5, 2, [t |-> "null"], environ, llm)

\* a vector store that holds the code as its one chunk
StoreOf(code) ==
    add_documents(initialize_vector_store_and_embeddings.vector_store,
                  <<[page_content |-> code]>>)

\* the RAG function when the code is what it retrieves
RetrievingOn(op, code, llm) ==
    CASE op = "analyze" ->
            Rag_analyze_code(<<"q">>, embedding_model, StoreOf(code), RagApiKey(environ), llm)
      [] op = "metrics" ->
            Rag_get_code_metrics(<<"q">>, embedding_model, StoreOf(code), RagApiKey(environ), llm)
      [] op = "inject" ->
            Rag_inject_bugs(<<"q">>, embedding_model, StoreOf(code), <<"SQL">>, 5, 2,
                            RagApiKey(environ), llm)

\* the other implementation on the code and the model text of the call in progress
Counterpart ==
    IF cur.impl = "rag" THEN DirectOn(cur.op, cur.fn.sent, cur.llm)
    ELSE RetrievingOn(cur.op, cur.fn.sent, cur.llm)

SameOutcome(a, b) ==
    /\ a.exc = b.exc /\ a.val = b.val
    /\ a.sent = b.sent /\ a.parsed = b.parsed /\ a.decoded = b.decoded

C25_SameNormalisation == GotText => SameOutcome(cur.fn, Counterpart)

\* inject_bugs of the RAG implementation got a fenced text that does not parse once
\* the fence is removed, and returned the default with the code it retrieved, as
\* inject_bugs of app/services.py does for that code
C25_Witness ==
    /\ GotText /\ cur.op = "inject" /\ cur.impl = "rag"
    /\ Fenced(cur.llm.text) /\ Malformed(cur.llm.text)
    /\ cur.fn.parsed # cur.llm.text
    /\ cur.fn.val = DefaultOf("inject", <<"def", "SP", "f">>)
    /\ cur.fn.val = Counterpart.val

(***************************************************************************)
(* C26: the analyze-code, code-metrics and inject-bugs endpoints always    *)
(* answer.  For every request they handle and everything the AI service    *)
(* can do (return a JSON value of any type, raise ValueError, raise any    *)
(* other exception) the response fits the response model of the endpoint   *)
(* and has the status success or error; and a response with the status     *)
(* error has the empty payload: no issues, every metric 0, an empty        *)
(* buggy_code and no bugs.                                                 *)
(***************************************************************************)
\* an endpoint has handled a request that passed the validation of its model
Handled(op) == cur.op = op /\ cur.impl = "api" /\ ~InvalidRequest(cur)

IsText(v) == DOMAIN v = {"t", "s"} /\ v.t = "str"
IsWhole(v) == DOMAIN v = {"t", "n"} /\ v.t = "num" /\ v.n \in Int
IsTextOrNull(v) == v = [t |-> "null"] \/ IsText(v)
IsWholeOrNull(v) == v = [t |-> "null"] \/ IsWhole(v)

FitsIssueDetail(r) ==
    /\ DOMAIN r = {"title", "type", "severity", "lineNumber", "description", "suggestedFix"}
    /\ IsText(r.title) /\ IsText(r.type) /\ IsText(r.severity)
    /\ IsWholeOrNull(r.lineNumber)
    /\ IsText(r.description) /\ IsText(r.suggestedFix)

FitsAnalyzeCodeResponse(r) ==
    /\ DOMAIN r = {"status", "issues", "total_issues", "error_message"}
    /\ \A i \in DOMAIN r.issues : FitsIssueDetail(r.issues[i])
    /\ r.total_issues \in Nat
    /\ IsTextOrNull(r.error_message)

FitsMetricsResponse(r) ==
    /\ DOMAIN r = {"status", "summary_metrics", "issue_distribution", "error_message"}
    /\ DOMAIN r.summary_metrics =
          {"code_quality_score", "security_rating", "bug_density", "critical_issue_count"}
    /\ \A k \in DOMAIN r.summary_metrics : IsWhole(r.summary_metrics[k])
    /\ DOMAIN r.issue_distribution =
          {"security_vulnerabilities", "code_smells", "best_practices", "performance_issues"}
    /\ \A k \in DOMAIN r.issue_distribution : IsWhole(r.issue_distribution[k])
    /\ IsTextOrNull(r.error_message)

FitsBugDetail(r) ==
    /\ DOMAIN r = {"type", "line_number", "description"}
    /\ IsText(r.type) /\ IsWhole(r.line_number) /\ IsText(r.description)

FitsInjectBugsResponse(r) ==
    /\ DOMAIN r = {"status", "buggy_code", "bugs_injected", "total_bugs_injected"}
    /\ IsText(r.buggy_code)
    /\ \A i \in DOMAIN r.bugs_injected : FitsBugDetail(r.bugs_injected[i])
    /\ r.total_bugs_injected \in Nat

AllZero(f) == \A k \in DOMAIN f : f[k] = [t |-> "num", n |-> 0]

C26_EndpointsTotal ==
    /\ Handled("analyze") =>
          /\ cur.resp.status \in {"success", "error"}
          /\ FitsAnalyzeCodeResponse(cur.resp)
          /\ cur.resp.status = "error" => (cur.resp.issues = <<>> /\ cur.resp.total_issues = 0)
    /\ Handled("metrics") =>
          /\ cur.resp.status \in {"success", "error"}
          /\ FitsMetricsResponse(cur.resp)
          /\ cur.resp.status = "error" =>
                (AllZero(cur.resp.summary_metrics) /\ AllZero(cur.resp.issue_distribution))
    /\ Handled("inject") =>
          /\ cur.resp.status \in {"success", "error"}
          /\ FitsInjectBugsResponse(cur.resp)
          /\ cur.resp.status = "error" =>
                /\ cur.resp.buggy_code = [t |-> "str", s |-> <<>>]
                /\ cur.resp.bugs_injected = <<>>
                /\ cur.resp.total_bugs_injected = 0

\* the AI service returned a JSON list to the code-metrics endpoint, which
\* answered with the status error and every metric 0
C26_Witness ==
    /\ Handled("metrics")
    /\ cur.fn # NotCalled /\ cur.fn.exc = "none" /\ cur.fn.val.t = "list"
    /\ cur.resp.status = "error"
    /\ AllZero(cur.resp.summary_metrics) /\ AllZero(cur.resp.issue_distribution)

=============================================================================
